---------------------------- MODULE Spec2Model ----------------------------
(***************************************************************************)
(* Receipt splitter: the debt allocator (services/expense_calculator.py,   *)
(* models/*.py) and the receipt text parser (services/receipt_parser.py).  *)
(*                                                                         *)
(* Amounts are Python floats.  They are modelled as IEEE-754 binary64      *)
(* values with round-to-nearest-even: a value is a record                  *)
(*   [s |-> sign (0 or 1), m |-> mantissa, e |-> exponent]                 *)
(* that stands for (-1)^s * m * 2^e, where m is a natural number that is   *)
(* either zero or has exactly MantBits bits.  Exponent overflow and        *)
(* subnormals lie outside the amounts used.                                *)
(***************************************************************************)
EXTENDS Integers, Naturals, Sequences, FiniteSets, TLC

(***************************************************************************)
(* Natural numbers of arbitrary size: sequences of limbs in base           *)
(* 2^LimbBits, least significant limb first, without leading zero limbs    *)
(* (zero is the empty sequence).                                           *)
(***************************************************************************)
MantBits == 53

LimbBits == 15

Base == 2 ^ LimbBits

Zeros(k) == [i \in 1..k |-> 0]

\* drop the zero limbs at the most significant end
Norm(a) ==
    LET nz == {i \in 1..Len(a) : a[i] # 0}
    IN  IF nz = {} THEN <<>>
        ELSE SubSeq(a, 1, CHOOSE i \in nz : \A j \in nz : j <= i)

RECURSIVE NatLimbs(_)
NatLimbs(k) == IF k = 0 THEN <<>> ELSE <<k % Base>> \o NatLimbs(k \div Base)

Limb(a, i) == IF i <= Len(a) THEN a[i] ELSE 0

RECURSIVE AddLimbs(_, _, _, _)
AddLimbs(a, b, i, carry) ==
    IF i > Len(a) /\ i > Len(b)
    THEN IF carry = 0 THEN <<>> ELSE <<carry>>
    ELSE LET t == Limb(a, i) + Limb(b, i) + carry
         IN  <<t % Base>> \o AddLimbs(a, b, i + 1, t \div Base)

BigAdd(a, b) == Norm(AddLimbs(a, b, 1, 0))

\* a - b for a >= b
RECURSIVE SubLimbs(_, _, _, _)
SubLimbs(a, b, i, borrow) ==
    IF i > Len(a) THEN <<>>
    ELSE LET t == Limb(a, i) - Limb(b, i) - borrow
         IN  IF t < 0 THEN <<t + Base>> \o SubLimbs(a, b, i + 1, 1)
                      ELSE <<t>> \o SubLimbs(a, b, i + 1, 0)

BigSub(a, b) == Norm(SubLimbs(a, b, 1, 0))

\* -1, 0, 1 as a < b, a = b, a > b (both normalised)
BigCmp(a, b) ==
    IF Len(a) # Len(b) THEN (IF Len(a) < Len(b) THEN -1 ELSE 1)
    ELSE LET d == {i \in 1..Len(a) : a[i] # b[i]}
         IN  IF d = {} THEN 0
             ELSE LET i == CHOOSE k \in d : \A j \in d : j <= k
                  IN  IF a[i] < b[i] THEN -1 ELSE 1

\* a * n for a natural n < Base
RECURSIVE MulLimbs(_, _, _, _)
MulLimbs(a, n, i, carry) ==
    IF i > Len(a)
    THEN IF carry = 0 THEN <<>> ELSE <<carry>>
    ELSE LET t == a[i] * n + carry
         IN  <<t % Base>> \o MulLimbs(a, n, i + 1, t \div Base)

BigMulSmall(a, n) == Norm(MulLimbs(a, n, 1, 0))

\* long division of a by a natural n, 0 < n < Base, from the most
\* significant limb down: quotient limbs and remainder
RECURSIVE DivLimbs(_, _, _, _, _)
DivLimbs(a, n, i, rem, acc) ==
    IF i = 0 THEN [q |-> Norm(acc), r |-> rem]
    ELSE LET t == rem * Base + a[i]
         IN  DivLimbs(a, n, i - 1, t % n, <<t \div n>> \o acc)

BigDivSmall(a, n) == DivLimbs(a, n, Len(a), 0, <<>>)

\* number of bits of a natural k < Base
SmallBitLen(k) == CHOOSE l \in 0..LimbBits : k < 2 ^ l /\ (l = 0 \/ k >= 2 ^ (l - 1))

BitLen(a) == IF a = <<>> THEN 0 ELSE LimbBits * (Len(a) - 1) + SmallBitLen(a[Len(a)])

\* a * 2^k
ShiftLeft(a, k) ==
    IF a = <<>> THEN <<>>
    ELSE Zeros(k \div LimbBits) \o BigMulSmall(a, 2 ^ (k % LimbBits))

\* a \div 2^k, and whether a bit was shifted out
ShiftRight(a, k) ==
    LET nl   == k \div LimbBits
        low  == \E i \in 1..nl : Limb(a, i) # 0
        high == IF nl >= Len(a) THEN <<>> ELSE SubSeq(a, nl + 1, Len(a))
        d    == BigDivSmall(high, 2 ^ (k % LimbBits))
    IN  [q |-> d.q, lost |-> low \/ d.r # 0]

(***************************************************************************)
(* binary64 arithmetic, round to nearest, ties to even.                    *)
(***************************************************************************)
FZero == [s |-> 0, m |-> <<>>, e |-> 0]

\* the double nearest to (-1)^s * a * 2^e; sticky says that the exact value
\* lies strictly above a * 2^e (bits lost by a division)
Round(s, a, e, sticky) ==
    LET l == BitLen(a)
    IN  IF l = 0 THEN FZero
        ELSE IF l <= MantBits
        THEN [s |-> s, m |-> ShiftLeft(a, MantBits - l), e |-> e - (MantBits - l)]
        ELSE LET d     == l - MantBits
                 t     == ShiftRight(a, d - 1)
                 guard == t.q[1] % 2
                 top   == BigDivSmall(t.q, 2).q
                 rest  == sticky \/ t.lost
                 up    == guard = 1 /\ (rest \/ top[1] % 2 = 1)
                 inc   == BigAdd(top, <<1>>)
             IN  IF ~up THEN [s |-> s, m |-> top, e |-> e + d]
                 ELSE IF BitLen(inc) > MantBits
                      THEN [s |-> s, m |-> BigDivSmall(inc, 2).q, e |-> e + d + 1]
                      ELSE [s |-> s, m |-> inc, e |-> e + d]

\* float(k) for an integer k
FInt(k) == IF k >= 0 THEN Round(0, NatLimbs(k), 0, FALSE)
                     ELSE Round(1, NatLimbs(-k), 0, FALSE)

GuardBits == LimbBits + 2

\* x / n for a float x and an int n, 0 < n < Base
FDivInt(x, n) ==
    IF x.m = <<>> THEN FZero
    ELSE LET d == BigDivSmall(ShiftLeft(x.m, GuardBits), n)
         IN  Round(x.s, d.q, x.e - GuardBits, d.r # 0)

\* x * n for a float x and a natural n < Base
FMulInt(x, n) ==
    IF x.m = <<>> \/ n = 0 THEN FZero
    ELSE Round(x.s, BigMulSmall(x.m, n), x.e, FALSE)

FNeg(x) == IF x.m = <<>> THEN x ELSE [x EXCEPT !.s = 1 - x.s]

FAbs(x) == [x EXCEPT !.s = 0]

\* the mantissa of x at exponent e <= x.e
Aligned(x, e) == IF x.m = <<>> THEN <<>> ELSE ShiftLeft(x.m, x.e - e)

MinExp(x, y) ==
    IF x.m = <<>> THEN y.e
    ELSE IF y.m = <<>> THEN x.e
    ELSE IF x.e < y.e THEN x.e ELSE y.e

\* -1, 0, 1 as |x| < |y|, |x| = |y|, |x| > |y|
MagCmp(x, y) ==
    LET e == MinExp(x, y) IN BigCmp(Aligned(x, e), Aligned(y, e))

\* x + y
FAdd(x, y) ==
    LET e == MinExp(x, y)
        a == Aligned(x, e)
        b == Aligned(y, e)
        c == BigCmp(a, b)
    IN  IF x.s = y.s THEN Round(x.s, BigAdd(a, b), e, FALSE)
        ELSE IF c = 0 THEN FZero
        ELSE IF c > 0 THEN Round(x.s, BigSub(a, b), e, FALSE)
        ELSE Round(y.s, BigSub(b, a), e, FALSE)

\* x - y
FSub(x, y) == FAdd(x, FNeg(y))

\* x < y
FLt(x, y) ==
    IF x.m = <<>> /\ y.m = <<>> THEN FALSE
    ELSE IF x.m = <<>> THEN y.s = 0
    ELSE IF y.m = <<>> THEN x.s = 1
    ELSE IF x.s # y.s THEN x.s = 1
    ELSE IF x.s = 0 THEN MagCmp(x, y) < 0 ELSE MagCmp(x, y) > 0

\* x <= y
FLe(x, y) == x = y \/ FLt(x, y)

\* the float that a literal with two decimals denotes: float("c/100")
Cents(c) == FDivInt(FInt(c), 100)


(***************************************************************************)
(* The debt allocator.                                                     *)
(***************************************************************************)
VARIABLES
    items,          \* the list handed to the allocator: ReceiptData.items,
                    \* or the Expense list read from the CSV file
    total_amount,   \* ReceiptData.total_amount
    op,             \* the operation that ran last
    result          \* what it returned

allocatorVars == <<items, total_amount, op, result>>

\* no receipt is being split
AllocatorIdle ==
    /\ items = <<>>
    /\ total_amount = <<>>
    /\ op = "idle"
    /\ result = <<>>

ZeroDivisionError == [raised |-> "ZeroDivisionError"]

\* Python's x / n for a float x and an int n
TrueDiv(x, n) == IF n = 0 THEN ZeroDivisionError ELSE FDivInt(x, n)

\* Expense(item_name, total_price, people_included)
Expense(item_name, cents, people_included) ==
    [kind |-> "Expense", item_name |-> item_name,
     total_price |-> Cents(cents), people_included |-> people_included]

None == <<>>

Some(v) == <<v>>

ValueError(msg) == [raised |-> "ValueError", msg |-> msg]

IsError(x) == "raised" \in DOMAIN x

\* a call that returned v instead of raising
Return(v) == [value |-> v]

\* the unit price taken to be the total price, whatever the quantity
DeriveUnitPrice_Undivided(item) ==
    IF /\ item.quantity # None /\ item.quantity[1] # 0
       /\ item.unit_price = None
       /\ item.quantity[1] > 0
    THEN [item EXCEPT !.unit_price = Some(item.total_price)]
    ELSE item

\* if self.quantity and self.unit_price is None and self.quantity > 0:
\*     self.unit_price = self.total_price / self.quantity
DeriveUnitPrice(item) ==
    IF /\ item.quantity # None /\ item.quantity[1] # 0
       /\ item.unit_price = None
       /\ item.quantity[1] > 0
    THEN [item EXCEPT !.unit_price =
                         Some(FDivInt(item.total_price, item.quantity[1]))]
    ELSE item

\* if self.quantity and self.unit_price and not self.total_price:
\*     self.total_price = self.quantity * self.unit_price
DeriveTotalPrice(item) ==
    IF /\ item.quantity # None /\ item.quantity[1] # 0
       /\ item.unit_price # None /\ item.unit_price[1] # FZero
       /\ item.total_price = FZero
    THEN [item EXCEPT !.total_price =
                         FMulInt(item.unit_price[1], item.quantity[1])]
    ELSE item

\* ExtractedItem(...) with ExtractedItem.__post_init__: the item, or the
\* ValueError raised
ExtractedItem(name, total_price, confidence_score, quantity, unit_price, is_special_charge, assigned_people) ==
    IF FLt(total_price, FZero)
    THEN ValueError("Total price cannot be negative")
    ELSE IF FLt(confidence_score, FZero) \/ FLt(FInt(1), confidence_score)
    THEN ValueError("Confidence score must be between 0 and 1")
    ELSE IF quantity # None /\ quantity[1] <= 0
    THEN ValueError("Quantity must be positive")
    ELSE IF unit_price # None /\ FLt(unit_price[1], FZero)
    THEN ValueError("Unit price cannot be negative")
    ELSE DeriveTotalPrice(DeriveUnitPrice(
            [kind |-> "ExtractedItem", name |-> name,
             total_price |-> total_price,
             confidence_score |-> confidence_score, quantity |-> quantity,
             unit_price |-> unit_price,
             is_special_charge |-> is_special_charge,
             assigned_people |-> assigned_people]))

isExpense(expense) == expense.kind = "Expense"

\* Expense.price_per_person without the split
ExpensePricePerPerson_Undivided(self) ==
    IF self.people_included = <<>> THEN FZero ELSE self.total_price

\* Expense.price_per_person
ExpensePricePerPerson(self) ==
    IF self.people_included = <<>> THEN FZero
    ELSE TrueDiv(self.total_price, Len(self.people_included))

\* price_per_person without the split
ItemPricePerPerson_Undivided(self) ==
    IF self.assigned_people = <<>> THEN FZero ELSE self.total_price

\* price_per_person splitting among one person too many
ItemPricePerPerson_OffByOne(self) ==
    IF self.assigned_people = <<>> THEN FZero
    ELSE TrueDiv(self.total_price, Len(self.assigned_people) + 1)

\* ExtractedItem.price_per_person
ItemPricePerPerson(self) ==
    IF self.assigned_people = <<>> THEN FZero
    ELSE TrueDiv(self.total_price, Len(self.assigned_people))

\* Person(name=person_name)
Person(name) == [name |-> name, total_owed |-> FZero, items |-> {}]

\* add_expense with = in place of +=
add_expense_Overwrite(self, item_name, amount) ==
    [self EXCEPT !.total_owed = amount, !.items = @ \cup {item_name}]

\* Person.add_expense
add_expense(self, item_name, amount) ==
    [self EXCEPT !.total_owed = FAdd(@, amount), !.items = @ \cup {item_name}]

\* the dict people: its entries in insertion order
Keys(people) == {people[i].name : i \in 1..Len(people)}

IndexOf(people, name) == CHOOSE i \in 1..Len(people) : people[i].name = name

\* body of the inner loop of calculate_debts for one person_name
ChargePerson(people, person_name, item_name, price_per_person) ==
    LET p == IF person_name \notin Keys(people)
             THEN Append(people, Person(person_name))
             ELSE people
        i == IndexOf(p, person_name)
    IN  [p EXCEPT ![i] = add_expense(@, item_name, price_per_person)]

\* for person_name in people_included[k..]
RECURSIVE ChargeAll(_, _, _, _, _)
ChargeAll(people, people_included, k, item_name, price_per_person) ==
    IF k > Len(people_included) THEN people
    ELSE ChargeAll(ChargePerson(people, people_included[k], item_name,
                                price_per_person),
                   people_included, k + 1, item_name, price_per_person)

\* body of the outer loop of calculate_debts for one expense
ChargeExpense(people, expense) ==
    IF isExpense(expense)
    THEN ChargeAll(people, expense.people_included, 1, expense.item_name,
                   ExpensePricePerPerson(expense))
    ELSE ChargeAll(people, expense.assigned_people, 1, expense.name,
                   ItemPricePerPerson(expense))

\* for expense in expenses[i..]
RECURSIVE DebtsFrom(_, _, _)
DebtsFrom(expenses, i, people) ==
    IF i > Len(expenses) THEN people
    ELSE DebtsFrom(expenses, i + 1, ChargeExpense(people, expenses[i]))

\* ExpenseCalculator.calculate_debts
calculate_debts(expenses) == DebtsFrom(expenses, 1, <<>>)

\* sum(...) of the floats f[1..n] in order; Python starts from int 0
RECURSIVE SumTo(_, _)
SumTo(f, n) == IF n = 0 THEN FZero ELSE FAdd(SumTo(f, n - 1), f[n])

FSum(f) == SumTo(f, Len(f))

\* ReceiptData.calculated_total
calculated_total(its) == FSum([i \in 1..Len(its) |-> its[i].total_price])

\* ReceiptData.__post_init__: the total is derived when none is declared
PostInitTotal(its, declared) ==
    IF declared = FZero /\ its # <<>> THEN calculated_total(its) ELSE declared

\* for item in self.items[i..]: if person_name in item.assigned_people:
\* total += item.price_per_person
RECURSIVE PersonTotalFrom(_, _, _, _)
PersonTotalFrom(its, i, person_name, total) ==
    IF i > Len(its) THEN total
    ELSE PersonTotalFrom(its, i + 1, person_name,
                         IF person_name \in {its[i].assigned_people[k] : k \in 1..Len(its[i].assigned_people)}
                         THEN FAdd(total, ItemPricePerPerson(its[i]))
                         ELSE total)

\* ReceiptData.get_person_total
get_person_total(its, person_name) == PersonTotalFrom(its, 1, person_name, FZero)

\* ExpenseCalculator.calculate_from_receipt
calculate_from_receipt(its) == calculate_debts(its)

\* the comparison as an exact equality of floats
TotalsMatch_Exact(receipt_total, person_totals_sum) ==
    receipt_total = person_totals_sum

\* the comparison of validate_receipt_totals
TotalsMatch(receipt_total, person_totals_sum) ==
    FLt(FAbs(FSub(receipt_total, person_totals_sum)), Cents(1))

\* validate_receipt_totals with the operands of the difference swapped
validate_receipt_totals_Swapped(its, receipt_total) ==
    LET people == calculate_from_receipt(its)
        person_totals_sum ==
            FSum([i \in 1..Len(people) |-> people[i].total_owed])
    IN  [receipt_total     |-> receipt_total,
         calculated_total  |-> calculated_total(its),
         person_totals_sum |-> person_totals_sum,
         is_valid          |-> TotalsMatch(receipt_total, person_totals_sum),
         difference        |-> FSub(person_totals_sum, receipt_total)]

\* ExpenseCalculator.validate_receipt_totals
validate_receipt_totals(its, receipt_total) ==
    LET people == calculate_from_receipt(its)
        person_totals_sum ==
            FSum([i \in 1..Len(people) |-> people[i].total_owed])
    IN  [receipt_total     |-> receipt_total,
         calculated_total  |-> calculated_total(its),
         person_totals_sum |-> person_totals_sum,
         is_valid          |-> TotalsMatch(receipt_total, person_totals_sum),
         difference        |-> FSub(receipt_total, person_totals_sum)]


(***************************************************************************)
(* The receipt parser.  A text is a sequence of characters (strings of     *)
(* length one).                                                            *)
(***************************************************************************)
Digits == <<"0", "1", "2", "3", "4", "5", "6", "7", "8", "9">>

Lowers == <<"a", "b", "c", "d", "e", "f", "g", "h", "i", "j", "k", "l", "m",
            "n", "o", "p", "q", "r", "s", "t", "u", "v", "w", "x", "y", "z">>

Uppers == <<"A", "B", "C", "D", "E", "F", "G", "H", "I", "J", "K", "L", "M",
            "N", "O", "P", "Q", "R", "S", "T", "U", "V", "W", "X", "Y", "Z">>

SetOf(q) == {q[i] : i \in 1..Len(q)}

\* \d, \s and \w of the re module
DigitChars == SetOf(Digits)

SpaceChars == {" ", "\n", "\t", "\r"}

AlphaChars == SetOf(Lowers) \cup SetOf(Uppers)

WordChars == AlphaChars \cup DigitChars \cup {"_"}

\* [A-Za-z0-9\s&\-\'\.]
NameChars == AlphaChars \cup DigitChars \cup SpaceChars \cup {"&", "-", "'", "."}

Pos(q, c) == CHOOSE i \in 1..Len(q) : q[i] = c

\* str.lower and str.upper on one character
LowerChar(c) == IF c \in SetOf(Uppers) THEN Lowers[Pos(Uppers, c)] ELSE c

UpperChar(c) == IF c \in SetOf(Lowers) THEN Uppers[Pos(Lowers, c)] ELSE c

\* str.lower
Lower(t) == [i \in 1..Len(t) |-> LowerChar(t[i])]

\* re.sub(r'\s+', ' ', text): every run of whitespace becomes one space
CollapseSpaces(t) ==
    LET keep(i) == ~(t[i] \in SpaceChars /\ i > 1 /\ t[i - 1] \in SpaceChars)
        idx == {i \in 1..Len(t) : keep(i)}
        nth(k) == CHOOSE i \in idx : Cardinality({j \in idx : j <= i}) = k
    IN  [k \in 1..Cardinality(idx) |->
            IF t[nth(k)] \in SpaceChars THEN " " ELSE t[nth(k)]]

\* the characters of t that satisfy Keep, in order
Filter(t, Keep(_)) == SelectSeq(t, Keep)

\* re.sub(r'[^\w\s\.\$\:]', '', text)
StripSpecial(t) ==
    Filter(t, LAMBDA c : c \in WordChars \cup SpaceChars \cup {".", "$", ":"})

\* text.replace('$', '')
RemoveDollar(t) == Filter(t, LAMBDA c : c # "$")

\* str.strip
Strip(t) ==
    LET ns == {i \in 1..Len(t) : t[i] \notin SpaceChars}
    IN  IF ns = {} THEN <<>>
        ELSE SubSeq(t, CHOOSE i \in ns : \A j \in ns : i <= j,
                       CHOOSE i \in ns : \A j \in ns : j <= i)

\* text.split('\n'): the pieces between the line breaks
Split(t) ==
    LET brk == {i \in 1..Len(t) : t[i] = "\n"}
        n   == Cardinality(brk)
        \* position of the k-th line break; 0 and Len(t) + 1 at the ends
        at(k) == IF k = 0 THEN 0
                 ELSE IF k > n THEN Len(t) + 1
                 ELSE CHOOSE i \in brk : Cardinality({j \in brk : j <= i}) = k
    IN  [k \in 1..(n + 1) |-> SubSeq(t, at(k - 1) + 1, at(k) - 1)]

\* '\n'.join(lines)
RECURSIVE Join(_)
Join(lines) ==
    IF lines = <<>> THEN <<>>
    ELSE IF Len(lines) = 1 THEN lines[1]
    ELSE lines[1] \o <<"\n">> \o Join(Tail(lines))

\* ReceiptParser._clean_text
clean_text(text) ==
    LET t1 == Lower(text)
        t2 == CollapseSpaces(t1)
        t3 == StripSpecial(t2)
        t4 == RemoveDollar(t3)
        lines == [i \in 1..Len(Split(t4)) |-> Strip(Split(t4)[i])]
    IN  Join(SelectSeq(lines, LAMBDA l : l # <<>>))

(***************************************************************************)
(* Regular expressions.  A pattern is a sequence of elements; an element   *)
(* is a character class with a repetition (greedy or lazy) or a choice     *)
(* between alternatives, each a sequence of character sets or the          *)
(* end-of-string assertion.  MatchAt follows the backtracking order of     *)
(* the re module: elements left to right, a greedy repetition from the     *)
(* longest down, a lazy one from the shortest up, alternatives in order.   *)
(***************************************************************************)
Unbounded == -1

Cls(set, min, max, greedy) ==
    [type |-> "cls", set |-> set, min |-> min, max |-> max, greedy |-> greedy]

Alt(alts) == [type |-> "alt", alts |-> alts]

\* a literal, matched with re.IGNORECASE
Lit(w) == [eos |-> FALSE,
           atoms |-> [i \in 1..Len(w) |-> {LowerChar(w[i]), UpperChar(w[i])}]]

\* one character of a set, as an alternative
OneOf(set) == [eos |-> FALSE, atoms |-> <<set>>]

\* $
EndOfString == [eos |-> TRUE, atoms |-> <<>>]

NoMatch == [ok |-> FALSE, ends |-> <<>>]

MinOf(S) == CHOOSE i \in S : \A j \in S : i <= j

MaxOf(S) == CHOOSE i \in S : \A j \in S : j <= i

\* how many characters of set follow from pos on, at most max
RunLen(text, pos, set, max) ==
    LET lim   == IF max = Unbounded \/ pos + max - 1 > Len(text)
                 THEN Len(text) ELSE pos + max - 1
        stops == {j \in pos..lim : text[j] \notin set}
    IN  IF stops = {} THEN lim - pos + 1 ELSE MinOf(stops) - pos

\* $ matches at the end and before a final line break
AtEnd(text, pos) ==
    pos = Len(text) + 1 \/ (pos = Len(text) /\ text[pos] = "\n")

AltFits(a, text, pos) ==
    IF a.eos THEN AtEnd(text, pos)
    ELSE /\ pos + Len(a.atoms) - 1 <= Len(text)
         /\ \A i \in 1..Len(a.atoms) : text[pos + i - 1] \in a.atoms[i]

\* the match of pat[k..] at pos that the backtracking finds first:
\* ends[j] is the position after element k + j - 1
RECURSIVE MatchAt(_, _, _, _)
MatchAt(pat, k, text, pos) ==
    IF k > Len(pat) THEN [ok |-> TRUE, ends |-> <<>>]
    ELSE IF pat[k].type = "cls"
    THEN LET run == RunLen(text, pos, pat[k].set, pat[k].max)
             sub == [n \in pat[k].min..run |-> MatchAt(pat, k + 1, text, pos + n)]
             ok  == {n \in pat[k].min..run : sub[n].ok}
         IN  IF ok = {} THEN NoMatch
             ELSE LET n == IF pat[k].greedy THEN MaxOf(ok) ELSE MinOf(ok)
                  IN  [ok |-> TRUE, ends |-> <<pos + n>> \o sub[n].ends]
    ELSE LET alts == pat[k].alts
             fit == {a \in 1..Len(alts) : AltFits(alts[a], text, pos)}
             sub == [a \in fit |->
                        MatchAt(pat, k + 1, text, pos + Len(alts[a].atoms))]
             ok  == {a \in fit : sub[a].ok}
         IN  IF ok = {} THEN NoMatch
             ELSE LET a == MinOf(ok)
                  IN  [ok |-> TRUE,
                       ends |-> <<pos + Len(alts[a].atoms)>> \o sub[a].ends]

\* pattern.search(text) from position from on: the leftmost match
SearchFrom(pat, text, from) ==
    LET starts == {i \in from..(Len(text) + 1) : MatchAt(pat, 1, text, i).ok}
    IN  IF starts = {} THEN [ok |-> FALSE, start |-> 0, ends |-> <<>>]
        ELSE LET i == MinOf(starts)
             IN  [ok |-> TRUE, start |-> i, ends |-> MatchAt(pat, 1, text, i).ends]

\* pattern.search(text)
Search(pat, text) == SearchFrom(pat, text, 1)

\* the text matched by elements j..k of the pattern
Group(text, m, j, k) ==
    SubSeq(text, IF j = 1 THEN m.start ELSE m.ends[j - 1], m.ends[k] - 1)

\* pattern.finditer(text): the non-overlapping matches from left to right
\* (every match of the patterns used is non-empty)
RECURSIVE FindIterFrom(_, _, _)
FindIterFrom(pat, text, from) ==
    LET m == SearchFrom(pat, text, from)
    IN  IF ~m.ok THEN <<>>
        ELSE <<m>> \o FindIterFrom(pat, text, m.ends[Len(pat)])

FindIter(pat, text) == FindIterFrom(pat, text, 1)

D1 == Cls(DigitChars, 1, Unbounded, TRUE)

D2 == Cls(DigitChars, 2, 2, TRUE)

Dot == Cls({"."}, 1, 1, TRUE)

S0 == Cls(SpaceChars, 0, Unbounded, TRUE)

S1 == Cls(SpaceChars, 1, Unbounded, TRUE)

NameLazy == Cls(NameChars, 1, Unbounded, FALSE)

\* ReceiptParser.ITEM_PATTERNS, compiled with re.IGNORECASE
ITEM_PATTERNS ==
    << \* (quantity) x (name) (unit_price) (price)
       <<D1, S0, Cls({"x", "X"}, 1, 1, TRUE), S1, NameLazy, S1,
         D1, Dot, D2, S1, D1, Dot, D2>>,
       \* (quantity) (name) (price)
       <<D1, S1, NameLazy, S1, D1, Dot, D2>>,
       \* (name) (price)
       <<NameLazy, S1, D1, Dot, D2>> >>

\* the elements of each item pattern that make up a named group:
\* <<first, last>>, or <<>> when the pattern has no such group
ITEM_GROUPS ==
    << [quantity |-> <<1, 1>>, name |-> <<5, 5>>, unit_price |-> <<7, 9>>,
        price |-> <<11, 13>>],
       [quantity |-> <<1, 1>>, name |-> <<3, 3>>, unit_price |-> <<>>,
        price |-> <<5, 7>>],
       [quantity |-> <<>>, name |-> <<1, 1>>, unit_price |-> <<>>,
        price |-> <<3, 5>>] >>

\* (?::|$|\s)
Separator == Alt(<<Lit(<<":">>), EndOfString, OneOf(SpaceChars)>>)

\* ReceiptParser.SPECIAL_CHARGE_PATTERNS, compiled with re.IGNORECASE;
\* the amount is the last three elements
SPECIAL_CHARGE_PATTERNS ==
    << <<Alt(<<Lit(<<"t", "i", "p">>),
               Lit(<<"g", "r", "a", "t", "u", "i", "t", "y">>)>>),
         S0, Separator, S0, D1, Dot, D2>>,
       <<Alt(<<Lit(<<"s", "e", "r", "v", "i", "c", "e">>)>>), S0,
         Alt(<<Lit(<<"c", "h", "a", "r", "g", "e">>), Lit(<<"f", "e", "e">>)>>),
         S0, Separator, S0, D1, Dot, D2>>,
       <<Alt(<<Lit(<<"d", "e", "l", "i", "v", "e", "r", "y">>)>>), S0,
         Alt(<<Lit(<<"c", "h", "a", "r", "g", "e">>), Lit(<<"f", "e", "e">>)>>),
         S0, Separator, S0, D1, Dot, D2>> >>

(***************************************************************************)
(* Line classification, special charges and item validation.              *)
(***************************************************************************)
\* int(s) for a string of digits
RECURSIVE ParseInt(_)
ParseInt(ds) ==
    IF ds = <<>> THEN 0
    ELSE 10 * ParseInt(SubSeq(ds, 1, Len(ds) - 1)) + (Pos(Digits, ds[Len(ds)]) - 1)

\* float(s) for a string \d+\.\d{2}
ParseFloat(t) ==
    LET dot == Pos(t, ".")
    IN  Cents(ParseInt(SubSeq(t, 1, dot - 1)) * 100
              + ParseInt(SubSeq(t, dot + 1, Len(t))))

\* str.title: a letter after a letter is lowered, any other letter raised
Title(t) ==
    [i \in 1..Len(t) |->
        IF t[i] \notin AlphaChars THEN t[i]
        ELSE IF i > 1 /\ t[i - 1] \in AlphaChars THEN LowerChar(t[i])
        ELSE UpperChar(t[i])]

\* ParsedLine(text=line)
ParsedLine(line) ==
    [text |-> line, item_name |-> None, quantity |-> None,
     unit_price |-> None, total_price |-> None, confidence_score |-> FZero,
     is_special_charge |-> FALSE]

\* max(0.0, min(1.0, score))
Clamp(score) ==
    IF ~FLt(score, FInt(1)) THEN FInt(1)
    ELSE IF FLt(FZero, score) THEN score
    ELSE FZero

\* if parsed_line.item_name
HasName(parsed_line) ==
    parsed_line.item_name # None /\ parsed_line.item_name[1] # <<>>

\* the checks of _calculate_confidence_score in order: whether the check
\* passes, the hundredths it adds, and whether failing it subtracts them
ConfidenceChecks(parsed_line) ==
    << [pass |-> HasName(parsed_line), cents |-> 30, penalty |-> FALSE],
       [pass |-> parsed_line.total_price # None, cents |-> 30,
        penalty |-> FALSE],
       [pass |-> parsed_line.quantity # None, cents |-> 15,
        penalty |-> FALSE],
       [pass |-> parsed_line.unit_price # None, cents |-> 15,
        penalty |-> FALSE],
       [pass |-> /\ HasName(parsed_line)
                 /\ Search(<<Cls(AlphaChars, 3, Unbounded, TRUE)>>,
                           parsed_line.item_name[1]).ok,
        cents |-> 10, penalty |-> TRUE],
       [pass |-> /\ parsed_line.total_price # None
                 /\ parsed_line.total_price[1] # FZero
                 /\ FLe(Cents(1), parsed_line.total_price[1])
                 /\ FLe(parsed_line.total_price[1], FInt(1000)),
        cents |-> 10, penalty |-> TRUE] >>

\* score += amount, or score -= amount
RECURSIVE ApplyChecks(_, _)
ApplyChecks(score, checks) ==
    IF checks = <<>> THEN score
    ELSE ApplyChecks(
            IF Head(checks).pass THEN FAdd(score, Cents(Head(checks).cents))
            ELSE IF Head(checks).penalty
                 THEN FSub(score, Cents(Head(checks).cents))
                 ELSE score,
            Tail(checks))

\* a score whose failed checks subtract nothing
calculate_confidence_score_NoPenalty(parsed_line) ==
    Clamp(ApplyChecks(FZero, [i \in 1..Len(ConfidenceChecks(parsed_line)) |->
                                [ConfidenceChecks(parsed_line)[i] EXCEPT !.penalty = FALSE]]))

\* ReceiptParser._calculate_confidence_score
calculate_confidence_score(parsed_line) ==
    Clamp(ApplyChecks(FZero, ConfidenceChecks(parsed_line)))

\* parsed_line.confidence_score = self._calculate_confidence_score(parsed_line)
Scored(parsed_line) ==
    [parsed_line EXCEPT
        !.confidence_score = calculate_confidence_score(parsed_line)]

\* ReceiptParser._extract_item_from_match, for a match m of item pattern p
extract_item_from_match(m, p, parsed_line) ==
    LET g == ITEM_GROUPS[p]
        grp(r) == Group(parsed_line.text, m, r[1], r[2])
    IN  Scored(
          [parsed_line EXCEPT
              !.item_name = Some(Strip(grp(g.name))),
              !.quantity = IF g.quantity = <<>> THEN None
                           ELSE Some(ParseInt(grp(g.quantity))),
              !.unit_price = IF g.unit_price = <<>> THEN None
                             ELSE Some(ParseFloat(grp(g.unit_price))),
              !.total_price = Some(ParseFloat(grp(g.price)))])

\* the first item pattern from p on that matches the line: its ParsedLine,
\* or nothing when none matches
RECURSIVE parse_line_from(_, _), FirstMatch(_, _, _)
parse_line_from(p, line) ==
    IF p > Len(ITEM_PATTERNS) THEN <<>>
    ELSE FirstMatch(Search(ITEM_PATTERNS[p], line), p, line)

FirstMatch(m, p, line) ==
    IF m.ok THEN <<extract_item_from_match(m, p, ParsedLine(line))>>
    ELSE parse_line_from(p + 1, line)

\* a classification that never tries the first pattern
parse_line_SkipFirst(line) == parse_line_from(2, line)

\* one line of ReceiptParser._parse_lines
parse_line(line) == parse_line_from(1, line)

RECURSIVE Concat(_)
Concat(seqs) ==
    IF seqs = <<>> THEN <<>> ELSE Head(seqs) \o Concat(Tail(seqs))

\* ReceiptParser._parse_lines
parse_lines(lines) == Concat([i \in 1..Len(lines) |-> parse_line(lines[i])])

ChargeTypes ==
    << <<"T", "i", "p">>,
       <<"S", "e", "r", "v", "i", "c", "e", " ", "C", "h", "a", "r", "g", "e">>,
       <<"D", "e", "l", "i", "v", "e", "r", "y", " ", "F", "e", "e">> >>

\* _extract_special_charges taking the first match of a pattern only
extract_special_charges_FirstOnly(text) ==
    LET charge(i, m) ==
            ExtractedItem(ChargeTypes[i],
                          ParseFloat(Group(text, m, Len(SPECIAL_CHARGE_PATTERNS[i]) - 2,
                                           Len(SPECIAL_CHARGE_PATTERNS[i]))),
                          Cents(90), None, None, TRUE, <<>>)
        found(i) == LET ms == FindIter(SPECIAL_CHARGE_PATTERNS[i], text)
                    IN  SelectSeq([j \in 1..(IF ms = <<>> THEN 0 ELSE 1) |-> charge(i, ms[j])],
                                  LAMBDA c : ~IsError(c))
    IN  Concat([i \in 1..Len(SPECIAL_CHARGE_PATTERNS) |-> found(i)])

\* ReceiptParser._extract_special_charges: a charge whose construction
\* raises ValueError is skipped
extract_special_charges(text) ==
    LET charge(i, m) ==
            ExtractedItem(ChargeTypes[i],
                          ParseFloat(Group(text, m, Len(SPECIAL_CHARGE_PATTERNS[i]) - 2,
                                           Len(SPECIAL_CHARGE_PATTERNS[i]))),
                          Cents(90), None, None, TRUE, <<>>)
        found(i) == LET ms == FindIter(SPECIAL_CHARGE_PATTERNS[i], text)
                    IN  SelectSeq([j \in 1..Len(ms) |-> charge(i, ms[j])],
                                  LAMBDA c : ~IsError(c))
    IN  Concat([i \in 1..Len(SPECIAL_CHARGE_PATTERNS) |-> found(i)])

\* the items if all could be constructed, else the first ValueError
AllOrFirstError(made) ==
    LET bad == {i \in 1..Len(made) : IsError(made[i])}
    IN  IF bad = {} THEN Return(made) ELSE made[MinOf(bad)]

\* ReceiptParser._convert_to_extracted_items: the items, or the ValueError
\* of the first parsed line whose ExtractedItem cannot be constructed
convert_to_extracted_items(parsed_lines) ==
    LET usable == SelectSeq(parsed_lines,
                    LAMBDA l : HasName(l) /\ l.total_price # None)
    IN  AllOrFirstError(
          [i \in 1..Len(usable) |->
              ExtractedItem(Title(usable[i].item_name[1]),
                            usable[i].total_price[1],
                            usable[i].confidence_score,
                            usable[i].quantity, usable[i].unit_price,
                            usable[i].is_special_charge, <<>>)])

\* ReceiptParser._clean_item_name
clean_item_name(name) ==
    LET n1 == CollapseSpaces(Strip(name))
        \* ^\d+[\.\)\-]\s*
        m  == MatchAt(<<D1, Cls({".", ")", "-"}, 1, 1, TRUE), S0>>, 1, n1, 1)
        n2 == IF m.ok THEN SubSeq(n1, m.ends[3], Len(n1)) ELSE n1
    IN  Title(n2)

\* ReceiptParser._clean_and_validate_items
clean_and_validate_items(its) ==
    LET valid == SelectSeq(its,
                    LAMBDA it : /\ Strip(it.name) # <<>>
                                /\ ~FLe(it.total_price, FZero))
    IN  [i \in 1..Len(valid) |->
            [valid[i] EXCEPT !.name = clean_item_name(valid[i].name)]]

(***************************************************************************)
(* The state of a run of parse_receipt_text.                               *)
(***************************************************************************)
VARIABLES
    text,             \* the raw text handed to parse_receipt_text
    stage,            \* how far parse_receipt_text has got
    parsing_errors,   \* the diagnostics recorded so far
    cleaned_text,     \* the normalized text
    lines,            \* cleaned_text.split('\n')
    parsed_lines,     \* the ParsedLines of the lines that match a pattern
    special_charges,  \* the special charges found in cleaned_text
    receipt_items,    \* the local list "items" of parse_receipt_text
    outcome           \* what parse_receipt_text returned or raised

parserVars == <<text, stage, parsing_errors, cleaned_text, lines,
                parsed_lines, special_charges, receipt_items, outcome>>

Pending == [status |-> "pending", items |-> <<>>, message |-> <<>>]

\* return items
Returned(its) == [status |-> "returned", items |-> its, message |-> <<>>]

\* raise ReceiptParsingError(message); the message is kept in the pieces
\* it is put together from
Raised(message) == [status |-> "ReceiptParsingError", items |-> <<>>,
                    message |-> message]

\* no text is being parsed
ParserIdle ==
    /\ text = <<>>
    /\ stage = "Idle"
    /\ parsing_errors = <<>>
    /\ cleaned_text = <<>>
    /\ lines = <<>>
    /\ parsed_lines = <<>>
    /\ special_charges = <<>>
    /\ receipt_items = <<>>
    /\ outcome = Pending

(***************************************************************************)
(* A single call of one of the functions and methods of the parser and of  *)
(* the models.                                                             *)
(***************************************************************************)
VARIABLES
    call,    \* the function called and its arguments
    reply    \* what it returned or raised

callVars == <<call, reply>>

\* no call has been made
CallIdle ==
    /\ call = [fn |-> "none"]
    /\ reply = <<>>

(***************************************************************************)
(* A ReceiptData object that the application adds items to, removes items  *)
(* from and assigns people in.                                             *)
(***************************************************************************)
VARIABLES
    receipt,   \* the ReceiptData: items, participants, total_amount,
               \* extraction_confidence
    uuids      \* how many ids uuid.uuid4() has handed out

receiptVars == <<receipt, uuids>>

\* no receipt has been constructed
ReceiptIdle ==
    /\ receipt = <<>>
    /\ uuids = 0

(***************************************************************************)
(* A run of PDFProcessor.process_pdf_comprehensive.                        *)
(***************************************************************************)
VARIABLES
    pdf_pc,             \* how far process_pdf_comprehensive has got
    extraction_errors,  \* the local list extraction_errors
    extracted,          \* what the method called last returned or raised
    attempts,           \* the extraction methods called so far, in order,
                        \* each with what it returned or raised
    pdf_outcome         \* what process_pdf_comprehensive returned or raised

pdfVars == <<pdf_pc, extraction_errors, extracted, attempts, pdf_outcome>>

\* process_pdf_comprehensive has not been called
PdfIdle ==
    /\ pdf_pc = "Idle"
    /\ extraction_errors = <<>>
    /\ extracted = <<>>
    /\ attempts = <<>>
    /\ pdf_outcome = <<>>

(***************************************************************************)
(* Calls of ExpenseCalculator.calculate_debts by several callers, one      *)
(* statement at a time.                                                    *)
(***************************************************************************)
VARIABLES
    frames,             \* per caller: the argument of its call and the
                        \* local variables of the call in progress
    returned            \* per caller: the ledgers its calls returned

ledgerVars == <<frames, returned>>

\* nobody calls calculate_debts
LedgerIdle ==
    /\ frames = <<>>
    /\ returned = <<>>

(***************************************************************************)
(* Inputs of the allocator.                                                *)
(***************************************************************************)
MaxItems == 2

\* a manually entered item: ExtractedItem(name, total_price, 0.9,
\* assigned_people=...)
SampleItem(name, cents, assigned_people) ==
    ExtractedItem(name, Cents(cents), Cents(90), None, None, FALSE,
                  assigned_people)

\* the items a list is drawn from; prices in cents
SampleItems ==
    << SampleItem("Pizza", 2000, <<"Alice", "Bob">>),
       SampleItem("Salad", 1000, <<"Alice">>),
       SampleItem("Drinks", 1500, <<>>),
       SampleItem("Gum", 1, <<>>),
       SampleItem("Tea", 10, <<>>),
       SampleItem("Cake", 20, <<"Bob">>),
       SampleItem("Pizza", 21, <<"Carol", "Alice", "Bob">>),
       SampleItem("Taxi", 500, <<"Bob", "Bob">>),
       Expense("Pizza", 2000, <<"Alice", "Bob">>),
       Expense("Rent", 1500, <<>>),
       Expense("Soda", 21, <<"Bob", "Carol", "Alice">>) >>

ItemLists ==
    UNION {{[i \in 1..n |-> SampleItems[f[i]]] :
              f \in [1..n -> 1..Len(SampleItems)]} : n \in 0..MaxItems}

\* ReceiptData(total_amount=...): not supplied, or a declared total
DeclaredTotals == {FZero, Cents(1500)}

AllExtracted(its) == \A i \in 1..Len(its) : ~isExpense(its[i])

vars == <<allocatorVars, parserVars, callVars, receiptVars, pdfVars, ledgerVars>>

\* a ReceiptData built from ExtractedItems and a declared total, or the
\* Expense list of the CSV aggregator
Init ==
    \E its \in ItemLists, declared \in DeclaredTotals :
        /\ AllExtracted(its) \/ declared = FZero
        /\ items = its
        /\ total_amount = IF AllExtracted(its) THEN PostInitTotal(its, declared)
                          ELSE FZero
        /\ op = "new"
        /\ result = <<>>
        /\ ParserIdle
        /\ CallIdle
        /\ ReceiptIdle
        /\ PdfIdle
        /\ LedgerIdle

CalculateDebts ==
    /\ op' = "calculate_debts"
    /\ result' = calculate_debts(items)
    /\ UNCHANGED <<items, total_amount, parserVars, callVars, receiptVars, pdfVars, ledgerVars>>

CalculateFromReceipt ==
    /\ AllExtracted(items)
    /\ op' = "calculate_from_receipt"
    /\ result' = calculate_from_receipt(items)
    /\ UNCHANGED <<items, total_amount, parserVars, callVars, receiptVars, pdfVars, ledgerVars>>

ValidateReceiptTotals ==
    /\ AllExtracted(items)
    /\ op' = "validate_receipt_totals"
    /\ result' = validate_receipt_totals(items, total_amount)
    /\ UNCHANGED <<items, total_amount, parserVars, callVars, receiptVars, pdfVars, ledgerVars>>

PricePerPerson ==
    \E i \in 1..Len(items) :
        /\ op' = "price_per_person"
        /\ result' = [item  |-> items[i],
                      value |-> IF isExpense(items[i])
                                THEN ExpensePricePerPerson(items[i])
                                ELSE ItemPricePerPerson(items[i])]
        /\ UNCHANGED <<items, total_amount, parserVars, callVars, receiptVars, pdfVars, ledgerVars>>

\* the names a total is asked for: the people of the items and a stranger
AskedNames == {"Alice", "Bob", "Carol", "Dave"}

GetPersonTotal ==
    \E person_name \in AskedNames :
        /\ AllExtracted(items)
        /\ op' = "get_person_total"
        /\ result' = [name |-> person_name,
                      value |-> get_person_total(items, person_name)]
        /\ UNCHANGED <<items, total_amount, parserVars, callVars, receiptVars, pdfVars, ledgerVars>>

Next ==
    \/ CalculateDebts
    \/ CalculateFromReceipt
    \/ ValidateReceiptTotals
    \/ PricePerPerson
    \/ GetPersonTotal

Spec == Init /\ [][Next]_vars


(***************************************************************************)
(* Properties of the allocator.                                            *)
(***************************************************************************)
Range(f) == {f[i] : i \in DOMAIN f}

ParticipantsOf(e) == IF isExpense(e) THEN e.people_included ELSE e.assigned_people

NameOf(e) == IF isExpense(e) THEN e.item_name ELSE e.name

DupFree(its) ==
    \A i \in 1..Len(its) :
        Cardinality(Range(ParticipantsOf(its[i]))) = Len(ParticipantsOf(its[i]))

AllAssigned(its) == \A i \in 1..Len(its) : ParticipantsOf(its[i]) # <<>>

\* the items with at least one participant, in order
AssignedOnly(its) == SelectSeq(its, LAMBDA e : ParticipantsOf(e) # <<>>)

\* the sum of the total prices of the items without participants
UnassignedSum(its) ==
    LET u == SelectSeq(its, LAMBDA e : ParticipantsOf(e) = <<>>)
    IN  FSum([i \in 1..Len(u) |-> u[i].total_price])

LedgerSum(people) == FSum([i \in 1..Len(people) |-> people[i].total_owed])

\* the shares of name in its[1..n], added up in the order of the items
RECURSIVE OwedBy(_, _, _)
OwedBy(name, its, n) ==
    IF n = 0 THEN FZero
    ELSE IF name \in Range(ParticipantsOf(its[n]))
         THEN FAdd(OwedBy(name, its, n - 1),
                   FDivInt(its[n].total_price, Len(ParticipantsOf(its[n]))))
         ELSE OwedBy(name, its, n - 1)

Within(x, y, tol) == FLe(FAbs(FSub(x, y)), tol)

\* C1: for items with duplicate-free participant lists, the ledger returned
\* by calculate_debts has exactly one entry for each name that occurs in a
\* participant list and no other entry; an entry's total_owed is the sum,
\* over the items listing the name, of total price / number of participants,
\* and its item set is the set of the names of those items.
C1_LedgerMatchesItems ==
    (op = "calculate_debts" /\ DupFree(items)) =>
        /\ Keys(result) =
              UNION {Range(ParticipantsOf(items[i])) : i \in 1..Len(items)}
        /\ Len(result) = Cardinality(Keys(result))
        /\ \A k \in 1..Len(result) :
              /\ result[k].total_owed = OwedBy(result[k].name, items, Len(items))
              /\ result[k].items =
                    {NameOf(items[i]) :
                        i \in {j \in 1..Len(items) :
                                 result[k].name \in Range(ParticipantsOf(items[j]))}}

C1_Witness ==
    /\ op = "calculate_debts"
    /\ DupFree(items)
    /\ Len(result) >= 2
    /\ \E k \in 1..Len(result) : Cardinality(result[k].items) = 2

\* C2: when every item of the receipt has a participant, the ledger totals
\* returned by calculate_from_receipt add up to the sum of the items' total
\* prices within 0.01.
C2_Reconciliation ==
    (op = "calculate_from_receipt" /\ AllAssigned(items)) =>
        Within(LedgerSum(result), calculated_total(items), Cents(1))

C2_Witness ==
    /\ op = "calculate_from_receipt"
    /\ AllAssigned(items)
    /\ Len(items) = 2
    /\ Len(result) = 3
    /\ LedgerSum(result) # calculated_total(items)

\* C3: validate_receipt_totals reports is_valid exactly when
\* |total_amount - sum of ledger totals| <= 0.01, and difference is
\* total_amount - sum of ledger totals.
C3_ValidWithinTolerance ==
    op = "validate_receipt_totals" =>
        LET s == LedgerSum(calculate_from_receipt(items))
        IN  /\ result.is_valid <=> FLe(FAbs(FSub(total_amount, s)), Cents(1))
            /\ result.difference = FSub(total_amount, s)

\* C4 as stated: items without participants add nothing to the ledger, and
\* when total_amount is the sum of the item totals, difference equals the
\* sum of the total prices of the unassigned items, with is_valid false
\* whenever that sum exceeds 0.01.
C4_Original ==
    /\ op = "calculate_debts" => result = calculate_debts(AssignedOnly(items))
    /\ (op = "validate_receipt_totals" /\ total_amount = calculated_total(items)) =>
          /\ result.difference = UnassignedSum(items)
          /\ FLt(Cents(1), UnassignedSum(items)) => ~result.is_valid

\* C4 amended: as above, with difference equal to the sum of the total
\* prices of the unassigned items within 0.01 (the two sums are rounded
\* separately).
C4_UnassignedItems ==
    /\ op = "calculate_debts" => result = calculate_debts(AssignedOnly(items))
    /\ (op = "validate_receipt_totals" /\ total_amount = calculated_total(items)) =>
          /\ Within(result.difference, UnassignedSum(items), Cents(1))
          /\ FLt(Cents(1), UnassignedSum(items)) => ~result.is_valid

C4_Witness ==
    /\ op = "validate_receipt_totals"
    /\ total_amount = calculated_total(items)
    /\ Len(items) = 2
    /\ ~AllAssigned(items)
    /\ AssignedOnly(items) # <<>>
    /\ result.difference # UnassignedSum(items)
    /\ ~result.is_valid

\* C5 as stated: whenever every item has a participant,
\* validate_receipt_totals reports is_valid.
C5_Original ==
    (op = "validate_receipt_totals" /\ AllAssigned(items)) => result.is_valid

\* C5 amended: whenever every item has a participant and total_amount is
\* the sum of the items' total prices, validate_receipt_totals reports
\* is_valid.
C5_OnlyUnassignedMismatch ==
    (/\ op = "validate_receipt_totals"
     /\ AllAssigned(items)
     /\ total_amount = calculated_total(items)) => result.is_valid

C5_Witness ==
    /\ op = "validate_receipt_totals"
    /\ AllAssigned(items)
    /\ total_amount = calculated_total(items)
    /\ items # <<>>
    /\ result.difference # FZero
    /\ result.is_valid

\* x * 2^(-52): the float epsilon relative to x
Epsilon(x) == IF x.m = <<>> THEN x ELSE [x EXCEPT !.e = @ - (MantBits - 1)]

\* C6 as stated: with participants, price_per_person times their number
\* equals total_price; without participants price_per_person is 0.
C6_Original ==
    op = "price_per_person" =>
        LET n == Len(ParticipantsOf(result.item))
        IN  /\ n > 0 => FMulInt(result.value, n) = result.item.total_price
            /\ n = 0 => result.value = FZero

\* C6 amended: with participants, price_per_person times their number
\* equals total_price within the float epsilon (relative error 2^-52);
\* without participants price_per_person is 0 and nothing is divided.
C6_PricePerPerson ==
    op = "price_per_person" =>
        LET n == Len(ParticipantsOf(result.item))
        IN  /\ n > 0 => /\ result.value # ZeroDivisionError
                        /\ Within(FMulInt(result.value, n),
                                  result.item.total_price,
                                  Epsilon(result.item.total_price))
            /\ n = 0 => result.value = FZero

C6_Witness ==
    /\ op = "price_per_person"
    /\ Len(ParticipantsOf(result.item)) = 3
    /\ FMulInt(result.value, 3) # result.item.total_price

C6_WitnessEmpty ==
    /\ op = "price_per_person"
    /\ ParticipantsOf(result.item) = <<>>


\* the item of the other type with the same name, total price and
\* participant list
OtherType(e) ==
    IF isExpense(e)
    THEN ExtractedItem(e.item_name, e.total_price, Cents(90), None, None,
                       FALSE, e.people_included)
    ELSE [kind |-> "Expense", item_name |-> e.name,
          total_price |-> e.total_price,
          people_included |-> e.assigned_people]

Swapped(its, mask) ==
    [i \in 1..Len(its) |-> IF i \in mask THEN OtherType(its[i]) ELSE its[i]]

\* C23: replacing any of the items by an item of the other type with the
\* same name, total price and participant list leaves the ledger of
\* calculate_debts unchanged.
C23_TypeIndependent ==
    op = "calculate_debts" =>
        \A mask \in SUBSET (1..Len(items)) :
            calculate_debts(Swapped(items, mask)) = result

\* a list that mixes an Expense and an ExtractedItem, both with participants
C23_Witness ==
    /\ op = "calculate_debts"
    /\ \E i, j \in 1..Len(items) :
          /\ isExpense(items[i]) /\ items[i].people_included # <<>>
          /\ ~isExpense(items[j]) /\ items[j].assigned_people # <<>>
    /\ Len(result) >= 2

(***************************************************************************)
(* parse_receipt_text, stage by stage.                                     *)
(***************************************************************************)
MaxLines == 2

\* receipt lines the raw text is made of
SampleLines ==
    << <<"2"," ","x"," ","c","o","f","f","e","e"," ","3",".","5","0"," ","7",".","0","0">>,
       <<"2"," ","c","o","f","f","e","e"," ","7",".","0","0">>,
       <<"c","o","f","f","e","e"," ","3",".","5","0">>,
       <<"0"," ","c","o","f","f","e","e"," ","5",".","0","0">>,
       <<"t","i","p"," ","2",".","0","0">>,
       <<"h","e","l","l","o">>,
       <<"c","o","f","f","e","e"," ","0",".","0","0">>,
       <<"T","i","p",":"," ","$","2",".","0","0">>,
       <<" "," ">>,
       <<"!","!","!">>,
       <<"s","e","r","v","i","c","e"," ","f","e","e"," ","1",".","5","0">> >>

\* the raw texts: up to MaxLines sample lines, separated by line breaks
ReceiptTexts ==
    UNION {{Join([i \in 1..n |-> SampleLines[f[i]]]) :
              f \in [1..n -> 1..Len(SampleLines)]} : n \in 0..MaxLines}

\* a check that lets whitespace through: not text
IsBlank_EmptyOnly(t) == t = <<>>

\* not text or not text.strip()
IsBlank(t) == t = <<>> \/ Strip(t) = <<>>

\* sep.join(parts), piece by piece
RECURSIVE Interleave(_, _)
Interleave(parts, sep) ==
    IF Len(parts) <= 1 THEN parts
    ELSE <<parts[1], sep>> \o Interleave(Tail(parts), sep)

\* a message that keeps only the diagnostic recorded last
NoItemsMessage_LastOnly(errors) ==
    <<"No valid items could be extracted from the receipt">>
    \o (IF errors # <<>> THEN <<": ", errors[Len(errors)]>> ELSE <<>>)

\* the message of the error raised for an empty item list
NoItemsMessage(errors) ==
    <<"No valid items could be extracted from the receipt">>
    \o (IF errors # <<>> THEN <<": ">> \o Interleave(errors, "; ") ELSE <<>>)

\* the message of the error raised for an unexpected exception e
FailedMessage(e, errors) ==
    <<"Failed to parse receipt text: ", e.msg>>
    \o (IF errors # <<>>
        THEN <<" Additional errors: ">> \o Interleave(errors, "; ")
        ELSE <<>>)

InitParser ==
    /\ AllocatorIdle
    /\ CallIdle
    /\ ReceiptIdle
    /\ PdfIdle
    /\ LedgerIdle
    /\ text \in ReceiptTexts
    /\ stage = "Received"
    /\ parsing_errors = <<>>
    /\ cleaned_text = <<>>
    /\ lines = <<>>
    /\ parsed_lines = <<>>
    /\ special_charges = <<>>
    /\ receipt_items = <<>>
    /\ outcome = Pending

\* blank text: fail at once
RejectBlank ==
    /\ stage = "Received"
    /\ IsBlank(text)
    /\ stage' = "Failed"
    /\ outcome' = Raised(<<"The receipt text is empty or blank">>)
    /\ UNCHANGED <<text, parsing_errors, cleaned_text, lines, parsed_lines,
                   special_charges, receipt_items, allocatorVars, callVars, receiptVars, pdfVars, ledgerVars>>

\* clean the text and split it into lines
Normalize ==
    /\ stage = "Received"
    /\ ~IsBlank(text)
    /\ cleaned_text' = clean_text(text)
    /\ lines' = Split(cleaned_text')
    /\ parsing_errors' =
          parsing_errors
          \o (IF cleaned_text' = <<>> \/ Len(cleaned_text') < 10
              THEN <<"Receipt text too short after cleaning">> ELSE <<>>)
          \o (IF Len(lines') < 2
              THEN <<"Too few lines in receipt text">> ELSE <<>>)
    /\ stage' = "Normalized"
    /\ UNCHANGED <<text, parsed_lines, special_charges, receipt_items,
                   outcome, allocatorVars, callVars, receiptVars, pdfVars, ledgerVars>>

\* parse each line
ClassifyLines ==
    /\ stage = "Normalized"
    /\ parsed_lines' = parse_lines(lines)
    /\ parsing_errors' =
          parsing_errors
          \o (IF parsed_lines' = <<>>
              THEN <<"No valid items found in receipt lines">> ELSE <<>>)
    /\ stage' = "LinesClassified"
    /\ UNCHANGED <<text, cleaned_text, lines, special_charges, receipt_items,
                   outcome, allocatorVars, callVars, receiptVars, pdfVars, ledgerVars>>

\* try: special_charges = ...
\* except Exception as e: special_charges = [], the error is recorded
TryCharges(found) ==
    IF IsError(found)
    THEN /\ special_charges' = <<>>
         /\ parsing_errors' =
               Append(parsing_errors,
                      <<"Error extracting special charges: ", found.msg>>)
    ELSE /\ special_charges' = found.value
         /\ UNCHANGED parsing_errors

\* extract the special charges; an exception is recorded and absorbed
ExtractCharges ==
    /\ stage = "LinesClassified"
    /\ TryCharges(Return(extract_special_charges(cleaned_text)))
    /\ stage' = "ChargesExtracted"
    /\ UNCHANGED <<text, cleaned_text, lines, parsed_lines, receipt_items,
                   outcome, allocatorVars, callVars, receiptVars, pdfVars, ledgerVars>>

\* a merge that puts the special charges first
TryMerge_ChargesFirst(converted) ==
    IF IsError(converted)
    THEN /\ stage' = "Failed"
         /\ outcome' = Raised(FailedMessage(converted, parsing_errors))
         /\ UNCHANGED receipt_items
    ELSE /\ stage' = "Merged"
         /\ receipt_items' = special_charges \o converted.value
         /\ UNCHANGED outcome

\* items = ...; items.extend(special_charges); an exception of the
\* conversion reaches the outer handler
TryMerge(converted) ==
    IF IsError(converted)
    THEN /\ stage' = "Failed"
         /\ outcome' = Raised(FailedMessage(converted, parsing_errors))
         /\ UNCHANGED receipt_items
    ELSE /\ stage' = "Merged"
         /\ receipt_items' = converted.value \o special_charges
         /\ UNCHANGED outcome

\* convert the parsed lines and add the special charges
Merge ==
    /\ stage = "ChargesExtracted"
    /\ TryMerge(convert_to_extracted_items(parsed_lines))
    /\ UNCHANGED <<text, parsing_errors, cleaned_text, lines, parsed_lines,
                   special_charges, allocatorVars, callVars, receiptVars, pdfVars, ledgerVars>>

\* validate and clean the items
Validate ==
    /\ stage = "Merged"
    /\ receipt_items' = clean_and_validate_items(receipt_items)
    /\ stage' = "Validated"
    /\ UNCHANGED <<text, parsing_errors, cleaned_text, lines, parsed_lines,
                   special_charges, outcome, allocatorVars, callVars, receiptVars, pdfVars, ledgerVars>>

\* return the items, or fail when there are none
Finish ==
    /\ stage = "Validated"
    /\ IF receipt_items = <<>>
       THEN /\ stage' = "Failed"
            /\ outcome' = Raised(NoItemsMessage(parsing_errors))
       ELSE /\ stage' = "Succeeded"
            /\ outcome' = Returned(receipt_items)
    /\ UNCHANGED <<text, parsing_errors, cleaned_text, lines, parsed_lines,
                   special_charges, receipt_items, allocatorVars, callVars, receiptVars, pdfVars, ledgerVars>>

NextParser ==
    \/ RejectBlank
    \/ Normalize
    \/ ClassifyLines
    \/ ExtractCharges
    \/ Merge
    \/ Validate
    \/ Finish

SpecParser == InitParser /\ [][NextParser]_vars


(***************************************************************************)
(* Properties of the parser.                                               *)
(***************************************************************************)
WhitespaceOnly(t) == \A i \in 1..Len(t) : t[i] \in SpaceChars

Finished == stage \in {"Succeeded", "Failed"}

\* the candidates of the run that can be made into items, each taken alone:
\* the parsed lines whose ExtractedItem can be constructed, then the
\* special charges
Candidates ==
    LET named == SelectSeq(parsed_lines,
                    LAMBDA l : /\ l.item_name # None /\ l.item_name[1] # <<>>
                               /\ l.total_price # None)
        made == [i \in 1..Len(named) |->
                    ExtractedItem(Title(named[i].item_name[1]),
                                  named[i].total_price[1],
                                  named[i].confidence_score,
                                  named[i].quantity, named[i].unit_price,
                                  named[i].is_special_charge, <<>>)]
    IN  SelectSeq(made, LAMBDA c : ~IsError(c)) \o special_charges

\* the candidates that pass validation
Survivors == clean_and_validate_items(Candidates)

\* C7: for non-blank text parse_receipt_text raises ReceiptParsingError
\* exactly when no candidate item survives validation, and otherwise
\* returns the surviving items: a defective candidate is dropped and does
\* not fail a run in which another item or special charge survives.
C7_FailsOnlyWhenEmpty ==
    (Finished /\ ~WhitespaceOnly(text)) =>
        /\ (outcome.status = "ReceiptParsingError") <=> (Survivors = <<>>)
        /\ outcome.status = "returned" =>
              (outcome.items = Survivors /\ outcome.items # <<>>)

\* C8: empty or whitespace-only text fails at once with the blank-text
\* error: no later stage runs, nothing is computed and no diagnostic is
\* recorded or reported.
C8_BlankFailsFast ==
    (stage # "Idle" /\ WhitespaceOnly(text)) =>
        /\ stage \in {"Received", "Failed"}
        /\ parsing_errors = <<>>
        /\ cleaned_text = <<>> /\ lines = <<>> /\ parsed_lines = <<>>
        /\ special_charges = <<>> /\ receipt_items = <<>>
        /\ stage = "Failed" =>
              outcome = Raised(<<"The receipt text is empty or blank">>)

C8_Witness ==
    /\ stage = "Failed"
    /\ text # <<>>
    /\ WhitespaceOnly(text)

C8_WitnessEmpty ==
    /\ stage = "Failed"
    /\ text = <<>>

\* the diagnostics the run has to record, from what its stages computed
Recorded ==
    (IF Len(cleaned_text) < 10
     THEN <<"Receipt text too short after cleaning">> ELSE <<>>)
    \o (IF Len(lines) < 2 THEN <<"Too few lines in receipt text">> ELSE <<>>)
    \o (IF parsed_lines = <<>>
        THEN <<"No valid items found in receipt lines">> ELSE <<>>)

\* the run failed for want of a valid item
FailedEmpty ==
    /\ stage = "Failed"
    /\ outcome.message # <<>>
    /\ outcome.message[1] = "No valid items could be extracted from the receipt"

\* the diagnostics a message lists, without the separators
Reported(message) ==
    SelectSeq(Tail(message), LAMBDA part : part \notin {": ", "; "})

\* C9: when the run fails because the validated item list is empty, the
\* message lists every diagnostic recorded in the run, each once and in
\* the order of recording.
C9_AllDiagnosticsReported ==
    FailedEmpty =>
        /\ parsing_errors = Recorded
        /\ Reported(outcome.message) = parsing_errors

C9_Witness ==
    /\ FailedEmpty
    /\ Len(parsing_errors) = 3

C9_WitnessOne ==
    /\ FailedEmpty
    /\ Len(parsing_errors) = 1

\* the raw lines, each cleaned on its own, without those left empty
RawLines ==
    LET raw == Split(text)
    IN  SelectSeq([i \in 1..Len(raw) |-> clean_text(raw[i])],
                  LAMBDA l : l # <<>>)

\* the lines of the normalized text
CleanedLines == IF cleaned_text = <<>> THEN <<>> ELSE Split(cleaned_text)

\* C10: the normalizer keeps the line structure: the cleaned lines are the
\* non-blank raw lines, cleaned, in their order, and every raw line that
\* matches an item pattern is classified on its own.
C10_LineStructureKept ==
    /\ stage \in {"Normalized", "LinesClassified", "ChargesExtracted",
                  "Merged", "Validated", "Succeeded"} =>
          CleanedLines = RawLines
    /\ stage \in {"LinesClassified", "ChargesExtracted", "Merged",
                  "Validated", "Succeeded"} =>
          Len(parsed_lines) =
             Len(SelectSeq(RawLines, LAMBDA l : parse_line(l) # <<>>))

\* what validation leaves untouched in an item
Bare(item) == <<item.total_price, item.quantity, item.is_special_charge>>

BareAll(its) == [i \in 1..Len(its) |-> Bare(its[i])]

\* a can be had from b by removing elements
RECURSIVE IsSubsequence(_, _)
IsSubsequence(a, b) ==
    IF a = <<>> THEN TRUE
    ELSE IF b = <<>> THEN FALSE
    ELSE IF Head(a) = Head(b) THEN IsSubsequence(Tail(a), Tail(b))
    ELSE IsSubsequence(a, Tail(b))

\* the line items in the order of the parsed lines
LineItemsInOrder ==
    [i \in 1..Len(parsed_lines) |->
        <<parsed_lines[i].total_price[1], parsed_lines[i].quantity, FALSE>>]

\* the amounts that special-charge pattern i matches in t, left to right,
\* under the name of its family
ScanOf(i, t) ==
    LET ms == FindIter(SPECIAL_CHARGE_PATTERNS[i], t)
        n  == Len(SPECIAL_CHARGE_PATTERNS[i])
    IN  [j \in 1..Len(ms) |->
            <<ChargeTypes[i], ParseFloat(Group(t, ms[j], n - 2, n))>>]

ScanOrder(t) == ScanOf(1, t) \o ScanOf(2, t) \o ScanOf(3, t)

\* C11: in the returned list the line items precede the special charges,
\* the line items keep the order of their lines, the special charges keep
\* the order of the pattern scan (tips, service charges, delivery fees,
\* each in text order), and validation removes without reordering.
C11_OutputOrder ==
    stage = "Succeeded" =>
        LET out == outcome.items
            regular == SelectSeq(out, LAMBDA it : ~it.is_special_charge)
            special == SelectSeq(out, LAMBDA it : it.is_special_charge)
        IN  /\ out = regular \o special
            /\ IsSubsequence(BareAll(out),
                             LineItemsInOrder \o BareAll(special_charges))
            /\ [i \in 1..Len(special_charges) |->
                   <<special_charges[i].name, special_charges[i].total_price>>]
               = ScanOrder(cleaned_text)

\* a line item and special charges of two families, the service charge
\* standing before the tip in the text
C11_Witness ==
    /\ stage = "Succeeded"
    /\ \E i \in 1..Len(outcome.items) : ~outcome.items[i].is_special_charge
    /\ \E i, j \in 1..Len(outcome.items) :
          /\ i < j
          /\ outcome.items[i].name = ChargeTypes[1]
          /\ outcome.items[j].name = ChargeTypes[2]
          /\ outcome.items[i].is_special_charge
          /\ outcome.items[j].is_special_charge
    /\ Search(SPECIAL_CHARGE_PATTERNS[2], cleaned_text).start
          < Search(SPECIAL_CHARGE_PATTERNS[1], cleaned_text).start


(***************************************************************************)
(* Single calls.                                                           *)
(***************************************************************************)
\* the lists of up to MaxLines sample lines
LineLists ==
    UNION {[1..n -> {SampleLines[i] : i \in 1..Len(SampleLines)}] :
              n \in 0..MaxLines}

InitCalls ==
    /\ AllocatorIdle
    /\ ParserIdle
    /\ CallIdle
    /\ ReceiptIdle
    /\ PdfIdle
    /\ LedgerIdle

\* self._parse_lines(lines)
CallParseLines ==
    /\ call.fn = "none"
    /\ \E ls \in LineLists :
          /\ call' = [fn |-> "_parse_lines", arg |-> ls]
          /\ reply' = parse_lines(ls)
    /\ UNCHANGED <<allocatorVars, parserVars, receiptVars, pdfVars, ledgerVars>>

\* the parsed lines a score is computed for: every combination of a
\* missing, empty, short or long name, a missing, zero, smallest, usual,
\* largest or too large total price, and a quantity and a unit price that
\* are present or not
ScoredLines ==
    {[text |-> <<"x">>, item_name |-> n, quantity |-> q, unit_price |-> u,
      total_price |-> t, confidence_score |-> FZero,
      is_special_charge |-> FALSE] :
        n \in {None, Some(<<>>), Some(<<"a", "b">>),
               Some(<<"c", "o", "f", "f", "e", "e">>)},
        t \in {None, Some(FZero), Some(Cents(1)), Some(Cents(700)),
               Some(Cents(100000)), Some(Cents(100001))},
        q \in {None, Some(2)},
        u \in {None, Some(Cents(350))}}

\* the default of is_high_confidence(self, threshold: float = 0.8)
DefaultThreshold == Cents(80)

\* ExtractedItem.is_high_confidence
is_high_confidence(self, threshold) == FLe(threshold, self.confidence_score)

\* self._calculate_confidence_score(parsed_line)
CallConfidenceScore ==
    /\ call.fn = "none"
    /\ \E pl \in ScoredLines :
          /\ call' = [fn |-> "_calculate_confidence_score", arg |-> pl]
          /\ reply' = calculate_confidence_score(pl)
    /\ UNCHANGED <<allocatorVars, parserVars, receiptVars, pdfVars, ledgerVars>>

\* the columns that read_expenses asks every row for
RequiredColumns == {"ItemName", "TotalPrice", "PeopleIncluded"}

\* row[key] of csv.DictReader: the cell under the column of that name
Cell(header, row, key) == row[CHOOSE i \in 1..Len(header) : header[i] = key]

\* a string \d+\.\d{2}
IsDecimal(t) ==
    /\ Len(t) >= 4
    /\ t[Len(t) - 2] = "."
    /\ \A i \in (1..Len(t)) \ {Len(t) - 2} : t[i] \in DigitChars

\* str.split(): the words between the blanks
RECURSIVE SplitWords(_)
SplitWords(t) ==
    IF t = <<>> THEN <<>>
    ELSE IF Head(t) = " " THEN SplitWords(Tail(t))
    ELSE LET stops == {i \in 1..Len(t) : t[i] = " "}
             stop  == IF stops = {} THEN Len(t) + 1 ELSE MinOf(stops)
         IN  <<SubSeq(t, 1, stop - 1)>> \o SplitWords(SubSeq(t, stop, Len(t)))

\* raise ValueError(f"Invalid total price: {row['TotalPrice']} for item
\* {row['ItemName']}"); the message is kept in its pieces
InvalidTotalPrice(price, item) ==
    [raised |-> "ValueError",
     msg |-> <<"Invalid total price: ", price, " for item ", item>>]

\* for row in reader[i..]: the expenses, or the error of the first row that
\* raises
RECURSIVE ReadRows(_, _, _, _)
ReadRows(header, rows, i, expenses) ==
    IF i > Len(rows) THEN Return(expenses)
    ELSE IF ~(RequiredColumns \subseteq Range(header))
    THEN ValueError("CSV file is missing required headers: ItemName, TotalPrice, PeopleIncluded")
    ELSE IF ~IsDecimal(Cell(header, rows[i], "TotalPrice"))
    THEN InvalidTotalPrice(Cell(header, rows[i], "TotalPrice"),
                           Cell(header, rows[i], "ItemName"))
    ELSE ReadRows(header, rows, i + 1,
            Append(expenses,
                   [kind |-> "Expense",
                    item_name |-> Cell(header, rows[i], "ItemName"),
                    total_price |-> ParseFloat(Cell(header, rows[i], "TotalPrice")),
                    people_included |->
                        SplitWords(Cell(header, rows[i], "PeopleIncluded"))]))

\* CSVHandler.read_expenses on an existing file with that header line and
\* those data rows
read_expenses(file) == ReadRows(file.header, file.rows, 1, <<>>)

\* how many data rows a CSV file has
MaxRows == 2

\* the header lines: all three columns, and each of them missing
CsvHeaders ==
    {<<"ItemName", "TotalPrice", "PeopleIncluded">>,
     <<"ItemName", "TotalPrice">>,
     <<"ItemName", "PeopleIncluded">>,
     <<"TotalPrice", "PeopleIncluded">>}

\* the cells of a column: two items, a price and a word that is none, one
\* person and two
CsvCells(key) ==
    IF key = "ItemName" THEN {<<"t", "e", "a">>, <<"p", "i", "e">>}
    ELSE IF key = "TotalPrice" THEN {<<"3", ".", "5", "0">>, <<"a", "b", "c">>}
    ELSE {<<"a", "n", "n">>, <<"a", "n", "n", " ", "b", "o", "b">>}

CsvRows(header) ==
    {row \in [1..Len(header) -> UNION {CsvCells(k) : k \in RequiredColumns}] :
        \A i \in 1..Len(header) : row[i] \in CsvCells(header[i])}

\* the files of up to MaxRows data rows
CsvFiles ==
    UNION {{[header |-> h, rows |-> rs] :
               rs \in UNION {[1..n -> CsvRows(h)] : n \in 0..MaxRows}} :
           h \in CsvHeaders}

\* CSVHandler.read_expenses(file_path)
CallReadExpenses ==
    /\ call.fn = "none"
    /\ \E file \in CsvFiles :
          /\ call' = [fn |-> "read_expenses", arg |-> file]
          /\ reply' = read_expenses(file)
    /\ UNCHANGED <<allocatorVars, parserVars, receiptVars, pdfVars, ledgerVars>>

\* SPECIAL_CHARGE_KEYWORDS: every keyword of the three families, followed
\* by an amount of its own
ChargePhrases ==
    << 
       [family |-> 1, cents |-> 100,
        text |-> <<"t", "i", "p", " ", "1", ".", "0", "0">>],
       [family |-> 1, cents |-> 200,
        text |-> <<"g", "r", "a", "t", "u", "i", "t", "y", " ", "2", ".", "0", "0">>],
       [family |-> 2, cents |-> 300,
        text |-> <<"s", "e", "r", "v", "i", "c", "e", " ", "c", "h", "a", "r", "g", "e", " ", "3", ".", "0", "0">>],
       [family |-> 2, cents |-> 150,
        text |-> <<"s", "e", "r", "v", "i", "c", "e", " ", "f", "e", "e", " ", "1", ".", "5", "0">>],
       [family |-> 2, cents |-> 400,
        text |-> <<"s", "e", "r", "v", "i", "c", "e", " ", "4", ".", "0", "0">>],
       [family |-> 3, cents |-> 500,
        text |-> <<"d", "e", "l", "i", "v", "e", "r", "y", " ", "c", "h", "a", "r", "g", "e", " ", "5", ".", "0", "0">>],
       [family |-> 3, cents |-> 600,
        text |-> <<"d", "e", "l", "i", "v", "e", "r", "y", " ", "f", "e", "e", " ", "6", ".", "0", "0">>],
       [family |-> 3, cents |-> 700,
        text |-> <<"d", "e", "l", "i", "v", "e", "r", "y", " ", "7", ".", "0", "0">>] >>

\* the normalized texts of up to MaxLines keyword phrases
ChargeTexts ==
    {clean_text(Join(ls)) :
        ls \in UNION {[1..n -> {ChargePhrases[i].text : i \in 1..Len(ChargePhrases)}] :
                         n \in 0..MaxLines}}

\* self._extract_special_charges(text)
CallExtractSpecialCharges ==
    /\ call.fn = "none"
    /\ \E t \in ChargeTexts :
          /\ call' = [fn |-> "_extract_special_charges", arg |-> t]
          /\ reply' = extract_special_charges(t)
    /\ UNCHANGED <<allocatorVars, parserVars, receiptVars, pdfVars, ledgerVars>>

\* raw texts: the receipts of the parser, and texts in which a character
\* that is stripped, or a currency symbol, stands between two spaces
RawTexts ==
    ReceiptTexts \cup {<<"a", " ", "$", " ", "b">>, <<"a", " ", "!", " ", "b">>,
                       <<"t", "i", "p", " ", "-", " ", "$", " ", "2", ".", "0", "0">>}

\* self._clean_text(text)
CallCleanText ==
    /\ call.fn = "none"
    /\ \E t \in RawTexts :
          /\ call' = [fn |-> "_clean_text", arg |-> t]
          /\ reply' = clean_text(t)
    /\ UNCHANGED <<allocatorVars, parserVars, receiptVars, pdfVars, ledgerVars>>

\* the names of the items handed to the validator: empty, blank, plain,
\* an item number alone, an item number before a name, and spaces to trim
ValidatedNames ==
    {<<>>,
     <<" ", " ">>,
     <<"c", "o", "f", "f", "e", "e">>,
     <<"1", ".">>,
     <<"1", ".", " ", "c", "o", "f", "f", "e", "e">>,
     <<" ", " ", "e", "x", "t", "r", "a", " ", " ", "s", "p", "a", "c", "e", "s", " ", " ">>}

\* the lists of up to MaxItems items, with a zero or a positive total
ValidatedLists ==
    UNION {[1..n -> {ExtractedItem(nm, t, Cents(50), None, None, FALSE, <<>>) :
                        nm \in ValidatedNames, t \in {FZero, Cents(350)}}] :
              n \in 0..MaxItems}

\* self._clean_and_validate_items(items)
CallCleanAndValidate ==
    /\ call.fn = "none"
    /\ \E its \in ValidatedLists :
          /\ call' = [fn |-> "_clean_and_validate_items", arg |-> its]
          /\ reply' = clean_and_validate_items(its)
    /\ UNCHANGED <<allocatorVars, parserVars, receiptVars, pdfVars, ledgerVars>>

\* the arguments ExtractedItem is constructed with: each field below, at
\* and above the edge of what __post_init__ accepts
ItemArguments ==
    [name : {<<"x">>},
     total_price : {Cents(-1), FZero, Cents(700)},
     confidence_score : {Cents(-1), FZero, Cents(50), FInt(1), Cents(101)},
     quantity : {None, Some(-1), Some(0), Some(2), Some(3)},
     unit_price : {None, Some(Cents(-1)), Some(FZero), Some(Cents(350))}]

\* ExtractedItem(name=..., total_price=..., confidence_score=...,
\*               quantity=..., unit_price=...)
CallExtractedItem ==
    /\ call.fn = "none"
    /\ \E a \in ItemArguments :
          /\ call' = [fn |-> "ExtractedItem", arg |-> a]
          /\ reply' = ExtractedItem(a.name, a.total_price, a.confidence_score,
                                    a.quantity, a.unit_price, FALSE, <<>>)
    /\ UNCHANGED <<allocatorVars, parserVars, receiptVars, pdfVars, ledgerVars>>

NextCalls ==
    \/ CallParseLines
    \/ CallConfidenceScore
    \/ CallExtractSpecialCharges
    \/ CallCleanText
    \/ CallCleanAndValidate
    \/ CallExtractedItem
    \/ CallReadExpenses

SpecCalls == InitCalls /\ [][NextCalls]_vars

(***************************************************************************)
(* The receipt: ReceiptData with the methods that change its items, and    *)
(* the methods of ExtractedItem that change who an item is assigned to.    *)
(***************************************************************************)
\* add_person appending the name without looking for it
add_person_Always(self, person_name) ==
    [self EXCEPT !.assigned_people = Append(@, person_name)]

\* ExtractedItem.add_person
add_person(self, person_name) ==
    IF person_name \in Range(self.assigned_people) THEN self
    ELSE [self EXCEPT !.assigned_people = Append(@, person_name)]

\* list.remove(x): the list without the first x
ListRemove(l, x) ==
    LET i == MinOf({j \in 1..Len(l) : l[j] = x})
    IN  SubSeq(l, 1, i - 1) \o SubSeq(l, i + 1, Len(l))

\* ExtractedItem.remove_person
remove_person(self, person_name) ==
    IF person_name \in Range(self.assigned_people)
    THEN [self EXCEPT !.assigned_people = ListRemove(@, person_name)]
    ELSE self

\* sum(item.confidence_score for item in self.items) / len(self.items)
MeanConfidence(its) ==
    FDivInt(FSum([i \in 1..Len(its) |-> its[i].confidence_score]), Len(its))

\* ReceiptData(items=..., participants=..., total_amount=...,
\*             extraction_confidence=...) with ReceiptData.__post_init__
ReceiptData(its, participants, total, confidence) ==
    IF FLt(total, FZero)
    THEN ValueError("Total amount cannot be negative")
    ELSE IF FLt(confidence, FZero) \/ FLt(FInt(1), confidence)
    THEN ValueError("Extraction confidence must be between 0 and 1")
    ELSE [items |-> its, participants |-> participants,
          total_amount |-> PostInitTotal(its, total),
          extraction_confidence |->
              IF confidence = FZero /\ its # <<>>
              THEN MeanConfidence(its) ELSE confidence]

\* ReceiptData._recalculate_totals
recalculate_totals(self) ==
    IF self.items # <<>>
    THEN [self EXCEPT !.total_amount = calculated_total(self.items),
                      !.extraction_confidence = MeanConfidence(self.items)]
    ELSE [self EXCEPT !.total_amount = FZero,
                      !.extraction_confidence = FZero]

\* add_item without _recalculate_totals
add_item_Stale(self, item) == [self EXCEPT !.items = Append(@, item)]

\* ReceiptData.add_item
add_item(self, item) ==
    recalculate_totals([self EXCEPT !.items = Append(@, item)])

\* ReceiptData.remove_item: the receipt afterwards and the value returned
remove_item(self, item_id) ==
    LET kept == SelectSeq(self.items, LAMBDA item : item.id # item_id)
    IN  IF Len(kept) < Len(self.items)
        THEN [self |-> recalculate_totals([self EXCEPT !.items = kept]),
              value |-> TRUE]
        ELSE [self |-> [self EXCEPT !.items = kept], value |-> FALSE]

\* ReceiptData.add_participant
add_participant(self, name) ==
    IF name \in Range(self.participants) THEN self
    ELSE [self EXCEPT !.participants = Append(@, name)]

\* ReceiptData.remove_participant
remove_participant(self, name) ==
    IF name \in Range(self.participants)
    THEN [self EXCEPT
            !.participants = ListRemove(@, name),
            !.items = [i \in 1..Len(self.items) |->
                          remove_person(self.items[i], name)]]
    ELSE self

\* how many ExtractedItems are constructed in a run
MaxIds == 2

People == {"ann", "bob"}

\* the names that are added to and removed from the participants
ParticipantNames == {"ann"}

\* ExtractedItem(name="x", total_price=..., confidence_score=...,
\*               assigned_people=...) with the id that uuid4 hands out
NewItem(id, cents, confidence, assigned) ==
    [id |-> id] @@ ExtractedItem(<<"x">>, Cents(cents), Cents(confidence),
                                 None, None, FALSE, assigned)

\* ReceiptData(), or ReceiptData(items=[item], total_amount=...) with an
\* item that nobody is assigned to, or two people, or one person twice,
\* and with a total that is not supplied or is declared
InitReceipt ==
    /\ AllocatorIdle
    /\ ParserIdle
    /\ CallIdle
    /\ PdfIdle
    /\ LedgerIdle
    /\ \/ /\ receipt = ReceiptData(<<>>, <<>>, FZero, FZero)
          /\ uuids = 0
       \/ \E assigned \in {<<>>, <<"ann", "bob">>, <<"ann", "ann">>},
             declared \in {FZero, Cents(1000)} :
             /\ receipt = ReceiptData(<<NewItem(1, 10, 90, assigned)>>, <<>>,
                                      declared, FZero)
             /\ uuids = 1

\* receipt.add_item(ExtractedItem(...))
AddItem ==
    /\ uuids < MaxIds
    /\ \E price \in {<<10, 90>>, <<20, 50>>} :
          LET item == NewItem(uuids + 1, price[1], price[2], <<>>)
          IN  /\ receipt' = add_item(receipt, item)
              /\ call' = [fn |-> "add_item", arg |-> item]
    /\ uuids' = uuids + 1
    /\ reply' = None
    /\ UNCHANGED <<allocatorVars, parserVars, pdfVars, ledgerVars>>

\* receipt.remove_item(item_id), with an id that is or is not in the receipt
RemoveItem ==
    /\ \E item_id \in 1..MaxIds :
          /\ receipt' = remove_item(receipt, item_id).self
          /\ reply' = Some(remove_item(receipt, item_id).value)
          /\ call' = [fn |-> "remove_item", arg |-> item_id]
    /\ UNCHANGED <<uuids, allocatorVars, parserVars, pdfVars, ledgerVars>>

\* receipt.items[i].add_person(person_name)
AddPerson ==
    /\ \E i \in 1..Len(receipt.items), person_name \in People :
          /\ receipt' = [receipt EXCEPT !.items[i] = add_person(@, person_name)]
          /\ call' = [fn |-> "add_person", arg |-> <<i, person_name>>]
    /\ reply' = None
    /\ UNCHANGED <<uuids, allocatorVars, parserVars, pdfVars, ledgerVars>>

\* receipt.items[i].remove_person(person_name)
RemovePerson ==
    /\ \E i \in 1..Len(receipt.items), person_name \in People :
          /\ receipt' = [receipt EXCEPT !.items[i] = remove_person(@, person_name)]
          /\ call' = [fn |-> "remove_person", arg |-> <<i, person_name>>]
    /\ reply' = None
    /\ UNCHANGED <<uuids, allocatorVars, parserVars, pdfVars, ledgerVars>>

\* receipt.add_participant(name)
AddParticipant ==
    /\ \E name \in ParticipantNames :
          /\ receipt' = add_participant(receipt, name)
          /\ call' = [fn |-> "add_participant", arg |-> name]
    /\ reply' = None
    /\ UNCHANGED <<uuids, allocatorVars, parserVars, pdfVars, ledgerVars>>

\* receipt.remove_participant(name)
RemoveParticipant ==
    /\ \E name \in ParticipantNames :
          /\ receipt' = remove_participant(receipt, name)
          /\ call' = [fn |-> "remove_participant", arg |-> name]
    /\ reply' = None
    /\ UNCHANGED <<uuids, allocatorVars, parserVars, pdfVars, ledgerVars>>

NextReceipt ==
    \/ AddItem
    \/ RemoveItem
    \/ AddPerson
    \/ RemovePerson
    \/ AddParticipant
    \/ RemoveParticipant

SpecReceipt == InitReceipt /\ [][NextReceipt]_vars

(***************************************************************************)
(* process_pdf_comprehensive, step by step.  extract_text_from_pdf,        *)
(* convert_pdf_to_images and extract_text_with_ocr wrap every exception in *)
(* PDFProcessingError, so each of them returns or raises that error.       *)
(***************************************************************************)
\* raise PDFProcessingError(message); the message is kept in its pieces
PDFProcessingError(message) == [raised |-> "PDFProcessingError", msg |-> message]

\* how many pages a PDF has
MaxPages == 1

Letters(n) == [i \in 1..n |-> "a"]

Blanks(n) == [i \in 1..n |-> " "]

\* what direct extraction returns: nothing, blanks only, a short text, 50
\* and 51 letters, and the same between blanks
DirectTexts ==
    {<<>>, Blanks(2), Blanks(60), <<"T", "o", "o", " ", "s", "h", "o", "r", "t">>,
     Letters(50), Letters(51),
     Blanks(1) \o Letters(50) \o Blanks(1), Blanks(1) \o Letters(51)}

\* self.extract_text_from_pdf(pdf_file)
DirectOutcomes ==
    {PDFProcessingError(<<"Text extraction failed: ", "boom">>)}
    \cup {Return(t) : t \in DirectTexts}

\* self.convert_pdf_to_images(pdf_file): a list of page images
ConvertOutcomes ==
    {PDFProcessingError(<<"PDF to image conversion failed: ", "boom">>)}
    \cup {Return(pages) : pages \in 0..MaxPages}

\* self.extract_text_with_ocr(images): pages without text are left out, so
\* the text is empty or not blank; without pages it is empty
OcrOutcomes(pages) ==
    IF pages = 0 THEN {Return(<<>>)}
    ELSE {PDFProcessingError(<<"OCR extraction failed: ", "boom">>),
          Return(<<>>),
          Return(<<"t", "i", "p", " ", "2", ".", "0", "0", "\n">>)}

\* raise PDFProcessingError(f"Failed to extract text from PDF:
\* {error_details}") with error_details = "; ".join(extraction_errors)
AllFailedMessage(errors) ==
    <<"Failed to extract text from PDF: ">>
    \o Concat(Interleave(errors, <<"; ">>))

\* the test with the threshold one character higher
Sufficient_Above51(t) == Strip(t) # <<>> /\ Len(Strip(t)) > 51

\* text.strip() and len(text.strip()) > 50
Sufficient(t) == Strip(t) # <<>> /\ Len(Strip(t)) > 50

InitPdf ==
    /\ AllocatorIdle
    /\ ParserIdle
    /\ CallIdle
    /\ ReceiptIdle
    /\ LedgerIdle
    /\ pdf_pc = "Called"
    /\ extraction_errors = <<>>
    /\ extracted = <<>>
    /\ attempts = <<>>
    /\ pdf_outcome = <<>>

\* text = self.extract_text_from_pdf(pdf_file)
TryDirect ==
    /\ pdf_pc = "Called"
    /\ \E o \in DirectOutcomes :
          /\ extracted' = o
          /\ attempts' = Append(attempts, [method |-> "extract_text_from_pdf",
                                           outcome |-> o])
    /\ pdf_pc' = "DirectTried"
    /\ UNCHANGED <<extraction_errors, pdf_outcome, allocatorVars, parserVars,
                   callVars, receiptVars, ledgerVars>>

\* if text.strip() and len(text.strip()) > 50: return text; else the
\* shortfall is recorded; except PDFProcessingError: the error is recorded
AfterDirect ==
    /\ pdf_pc = "DirectTried"
    /\ IF IsError(extracted)
       THEN /\ extraction_errors' =
                  Append(extraction_errors,
                         <<"Direct extraction error: ">> \o extracted.msg)
            /\ pdf_pc' = "Fallback"
            /\ UNCHANGED pdf_outcome
       ELSE IF Sufficient(extracted.value)
       THEN /\ pdf_outcome' = Return(extracted.value)
            /\ pdf_pc' = "Done"
            /\ UNCHANGED extraction_errors
       ELSE /\ extraction_errors' =
                  Append(extraction_errors,
                         <<"Direct extraction produced insufficient text">>)
            /\ pdf_pc' = "Fallback"
            /\ UNCHANGED pdf_outcome
    /\ UNCHANGED <<extracted, attempts, allocatorVars, parserVars, callVars,
                   receiptVars, ledgerVars>>

\* images = self.convert_pdf_to_images(pdf_file); an error is recorded by
\* the except clause of the OCR block
TryConvert ==
    /\ pdf_pc = "Fallback"
    /\ \E o \in ConvertOutcomes :
          /\ extracted' = o
          /\ attempts' = Append(attempts, [method |-> "convert_pdf_to_images",
                                           outcome |-> o])
          /\ IF IsError(o)
             THEN /\ extraction_errors' =
                        Append(extraction_errors,
                               <<"OCR extraction error: ">> \o o.msg)
                  /\ pdf_pc' = "AllFailed"
             ELSE /\ pdf_pc' = "Converted"
                  /\ UNCHANGED extraction_errors
    /\ UNCHANGED <<pdf_outcome, allocatorVars, parserVars, callVars,
                   receiptVars, ledgerVars>>

\* text = self.extract_text_with_ocr(images)
TryOcr ==
    /\ pdf_pc = "Converted"
    /\ \E o \in OcrOutcomes(extracted.value) :
          /\ extracted' = o
          /\ attempts' = Append(attempts, [method |-> "extract_text_with_ocr",
                                           outcome |-> o])
    /\ pdf_pc' = "OcrTried"
    /\ UNCHANGED <<extraction_errors, pdf_outcome, allocatorVars, parserVars,
                   callVars, receiptVars, ledgerVars>>

\* if text.strip(): return text; else the empty text is recorded; except
\* PDFProcessingError: the error is recorded
AfterOcr ==
    /\ pdf_pc = "OcrTried"
    /\ IF IsError(extracted)
       THEN /\ extraction_errors' =
                  Append(extraction_errors,
                         <<"OCR extraction error: ">> \o extracted.msg)
            /\ pdf_pc' = "AllFailed"
            /\ UNCHANGED pdf_outcome
       ELSE IF Strip(extracted.value) # <<>>
       THEN /\ pdf_outcome' = Return(extracted.value)
            /\ pdf_pc' = "Done"
            /\ UNCHANGED extraction_errors
       ELSE /\ extraction_errors' =
                  Append(extraction_errors,
                         <<"OCR extraction produced empty text">>)
            /\ pdf_pc' = "AllFailed"
            /\ UNCHANGED pdf_outcome
    /\ UNCHANGED <<extracted, attempts, allocatorVars, parserVars, callVars,
                   receiptVars, ledgerVars>>

\* raise PDFProcessingError(f"Failed to extract text from PDF: ...")
RaiseAllFailed ==
    /\ pdf_pc = "AllFailed"
    /\ pdf_outcome' = PDFProcessingError(AllFailedMessage(extraction_errors))
    /\ pdf_pc' = "Done"
    /\ UNCHANGED <<extraction_errors, extracted, attempts, allocatorVars,
                   parserVars, callVars, receiptVars, ledgerVars>>

NextPdf ==
    \/ TryDirect
    \/ AfterDirect
    \/ TryConvert
    \/ TryOcr
    \/ AfterOcr
    \/ RaiseAllFailed

SpecPdf == InitPdf /\ [][NextPdf]_vars

(***************************************************************************)
(* calculate_debts, statement by statement, called by two callers.         *)
(***************************************************************************)
\* bound: the number of expenses of an input
MaxExpenses == 2

\* bound: the number of calls of one caller
MaxCalls == 2

Callers == {"first", "second"}

\* the expenses an input is drawn from: both kinds, with people and item
\* names in common
LedgerItems ==
    << SampleItem("Pizza", 2000, <<"Alice", "Bob">>),
       Expense("Pizza", 21, <<"Bob", "Carol", "Alice">>) >>

ExpenseLists ==
    UNION {{[i \in 1..n |-> LedgerItems[f[i]]] :
              f \in [1..n -> 1..Len(LedgerItems)]} : n \in 0..MaxExpenses}

\* a caller that holds its list of expenses and is not in a call
Outside(expenses) == [expenses |-> expenses, pc |-> "outside", i |-> 0, people |-> <<>>]

InitLedger ==
    /\ AllocatorIdle
    /\ ParserIdle
    /\ CallIdle
    /\ ReceiptIdle
    /\ PdfIdle
    /\ frames \in [Callers -> {Outside(e) : e \in ExpenseLists}]
    /\ returned = [c \in Callers |-> <<>>]

\* a ledger that starts from what the last call returned
NewFrame_KeptLedger(c) ==
    [frames[c] EXCEPT !.pc = "loop", !.i = 1,
                      !.people = IF returned[c] = <<>> THEN <<>>
                                 ELSE returned[c][Len(returned[c])]]

\* the frame of a new call: people = {}
NewFrame(c) == [frames[c] EXCEPT !.pc = "loop", !.i = 1, !.people = <<>>]

\* calculate_debts(expenses) is called
EnterCall(c) ==
    /\ frames[c].pc = "outside"
    /\ Len(returned[c]) < MaxCalls
    /\ frames' = [frames EXCEPT ![c] = NewFrame(c)]
    /\ UNCHANGED <<returned, allocatorVars, parserVars, callVars, receiptVars, pdfVars>>

\* one pass of: for expense in expenses
ChargeNext(c) ==
    /\ frames[c].pc = "loop"
    /\ frames[c].i <= Len(frames[c].expenses)
    /\ frames' = [frames EXCEPT ![c].people = ChargeExpense(@, frames[c].expenses[frames[c].i]),
                                ![c].i = @ + 1]
    /\ UNCHANGED <<returned, allocatorVars, parserVars, callVars, receiptVars, pdfVars>>

\* return people
ReturnPeople(c) ==
    /\ frames[c].pc = "loop"
    /\ frames[c].i > Len(frames[c].expenses)
    /\ returned' = [returned EXCEPT ![c] = Append(@, frames[c].people)]
    /\ frames' = [frames EXCEPT ![c] = Outside(frames[c].expenses)]
    /\ UNCHANGED <<allocatorVars, parserVars, callVars, receiptVars, pdfVars>>

NextLedger ==
    \E c \in Callers :
        \/ EnterCall(c)
        \/ ChargeNext(c)
        \/ ReturnPeople(c)

SpecLedger == InitLedger /\ [][NextLedger]_vars

(***************************************************************************)
(* Properties of the calls of calculate_debts.                             *)
(***************************************************************************)
\* the names of the items of a list that a person takes part in
ItemsOf(expenses, name) ==
    {NameOf(expenses[i]) : i \in {j \in 1..Len(expenses) : name \in Range(ParticipantsOf(expenses[j]))}}

\* nothing in the ledger but what the expenses put there
NothingCarriedOver(people, expenses) ==
    \A k \in 1..Len(people) :
        /\ people[k].items = ItemsOf(expenses, people[k].name)
        /\ people[k].items # {}

\* every ledger returned so far is the one a call on its own returns
ReturnedLedgers ==
    \A c \in Callers :
        \A k \in 1..Len(returned[c]) :
            /\ returned[c][k] = calculate_debts(frames[c].expenses)
            /\ returned[c][k] = returned[c][1]
            /\ NothingCarriedOver(returned[c][k], frames[c].expenses)

\* C26: calculate_debts leaves its input unchanged and builds a fresh
\* ledger on every call: every call of a caller returns the same ledger,
\* nothing of an earlier call or of another caller's call is in it, and
\* calls interleaved in any order return what they return when run alone.
C26_FreshLedgerPerCall ==
    /\ []ReturnedLedgers
    /\ [][\A c \in Callers : frames'[c].expenses = frames[c].expenses]_vars

\* both callers are in the middle of their loops, over different inputs
\* that share a person, after the first caller has already got a ledger
\* with that person in it
C26_Witness ==
    /\ returned["first"] # <<>>
    /\ frames["first"].pc = "loop" /\ frames["first"].i = 2
    /\ frames["second"].pc = "loop" /\ frames["second"].i = 2
    /\ frames["first"].expenses # frames["second"].expenses
    /\ "Bob" \in Keys(returned["first"][1])
    /\ "Bob" \in Keys(frames["first"].people) \cap Keys(frames["second"].people)

\* a caller has got two ledgers with entries
C26_WitnessTwice ==
    \E c \in Callers : Len(returned[c]) = 2 /\ returned[c][2] # <<>>


\* the stages of the pipeline before the final states, in order
Pipeline == <<"Received", "Normalized", "LinesClassified", "ChargesExtracted", "Merged", "Validated">>

\* the call is still running: its next statement takes it to another stage
\* (every step of NextParser changes the stage, and one of them is enabled
\* in every stage but the final ones)
Running == ~Finished /\ stage' \in (Range(Pipeline) \cup {"Succeeded", "Failed"})

\* a call of parse_receipt_text is one thread of control without loops
\* over the stages: it runs on until it returns or raises
SpecParserFair == SpecParser /\ WF_stage(Running)

StageIndex(s) == CHOOSE i \in 1..Len(Pipeline) : Pipeline[i] = s

\* one step of the pipeline: to the next stage, or from Validated to a
\* final state
StepInOrder ==
    \/ /\ stage \in Range(Pipeline) \ {"Validated"}
       /\ stage' = Pipeline[StageIndex(stage) + 1]
    \/ /\ stage = "Validated"
       /\ stage' \in {"Succeeded", "Failed"}

\* the final state agrees with what the call does
FinalStatesAgree ==
    /\ stage = "Succeeded" => (outcome.status = "returned" /\ outcome.items # <<>>)
    /\ stage = "Failed" => outcome.status = "ReceiptParsingError"
    /\ outcome.status # "pending" => Finished

\* C25: every run of parse_receipt_text on non-blank text passes through
\* Normalized, LinesClassified, ChargesExtracted, Merged and Validated in
\* this order, each at most once and without going back, and ends in
\* exactly one of Succeeded (a non-empty list is returned) or Failed
\* (ReceiptParsingError is raised); the special charges are extracted
\* before the merge and the run goes on to Merged.
C25_LinearPipeline ==
    /\ [][(~IsBlank(text) /\ stage' # stage) => StepInOrder]_vars
    /\ [][Finished => stage' = stage]_vars
    /\ []FinalStatesAgree
    /\ ~IsBlank(text) => <>(stage = "Validated")
    /\ <>[]Finished

\* the order of the stages alone: a run never goes back and never visits
\* a stage twice
C25_NeverBack ==
    [][stage' # stage =>
          /\ stage \in Range(Pipeline)
          /\ stage' \in Range(Pipeline) => StageIndex(stage') = StageIndex(stage) + 1]_vars

\* every run ends, in one final state
C25_Terminates == <>[]Finished /\ []FinalStatesAgree

\* a run that failed in the conversion, after the special charges were
\* extracted and before the merge
C25_FailedBeforeMerge ==
    /\ stage = "Failed"
    /\ ~IsBlank(text)
    /\ special_charges # <<>>
    /\ receipt_items = <<>>
    /\ IsError(convert_to_extracted_items(parsed_lines))

(***************************************************************************)
(* Properties of process_pdf_comprehensive.                                *)
(***************************************************************************)
\* the methods called so far, in order
Methods == [i \in 1..Len(attempts) |-> attempts[i].method]

\* the run is over and both direct extraction and OCR have raised
BothRaised ==
    /\ pdf_pc = "Done"
    /\ Len(attempts) = 3
    /\ IsError(attempts[1].outcome)
    /\ IsError(attempts[3].outcome)

\* C24: when direct extraction raises and OCR raises as well,
\* process_pdf_comprehensive raises PDFProcessingError with a message that
\* holds "All text extraction methods failed", after one call each of
\* extract_text_from_pdf, convert_pdf_to_images and extract_text_with_ocr.
C24_AllFailedMessage ==
    BothRaised =>
        /\ IsError(pdf_outcome)
        /\ pdf_outcome.raised = "PDFProcessingError"
        /\ "All text extraction methods failed" \in Range(pdf_outcome.msg)
        /\ Methods = <<"extract_text_from_pdf", "convert_pdf_to_images",
                       "extract_text_with_ocr">>

\* C27: direct extraction is attempted first and once; image conversion
\* and OCR are attempted only after direct extraction raised or returned
\* at most 50 characters after trimming; a direct text of more than 50
\* characters after trimming is returned without any OCR; a text from the
\* fallback OCR that is not blank is returned.
C27_DirectFirstOcrFallback ==
    /\ pdf_pc # "Called" => Len(attempts) >= 1
    /\ \E n \in 0..3 :
          Methods = SubSeq(<<"extract_text_from_pdf", "convert_pdf_to_images",
                             "extract_text_with_ocr">>, 1, n)
    /\ Len(attempts) >= 2 =>
          \/ IsError(attempts[1].outcome)
          \/ Len(Strip(attempts[1].outcome.value)) <= 50
    /\ (/\ pdf_pc = "Done"
        /\ ~IsError(attempts[1].outcome)
        /\ Len(Strip(attempts[1].outcome.value)) > 50) =>
          /\ pdf_outcome = Return(attempts[1].outcome.value)
          /\ Len(attempts) = 1
    /\ (/\ pdf_pc = "Done"
        /\ Len(attempts) = 3
        /\ ~IsError(attempts[3].outcome)
        /\ Strip(attempts[3].outcome.value) # <<>>) =>
          pdf_outcome = Return(attempts[3].outcome.value)

\* direct extraction returned 52 characters, 50 of them after trimming,
\* and the text of the OCR was returned
C27_Witness ==
    /\ pdf_pc = "Done"
    /\ Len(attempts) = 3
    /\ ~IsError(attempts[1].outcome)
    /\ Len(attempts[1].outcome.value) = 52
    /\ ~IsError(pdf_outcome)
    /\ pdf_outcome = attempts[3].outcome

\* a direct text of 51 characters after trimming was returned at once
C27_WitnessDirect ==
    /\ pdf_pc = "Done"
    /\ Len(attempts) = 1
    /\ pdf_outcome = Return(Blanks(1) \o Letters(51))

(***************************************************************************)
(* Properties of the receipt.                                              *)
(***************************************************************************)
NoDuplicates(l) == \A i, j \in 1..Len(l) : l[i] = l[j] => i = j

Without(l, x) == SelectSeq(l, LAMBDA y : y # x)

\* the assigned lists of the item a call of add_person or remove_person
\* was made on, before and after the call
AssignedBefore == receipt.items[call'.arg[1]].assigned_people

AssignedAfter == receipt'.items[call'.arg[1]].assigned_people

\* C19: add_person and remove_person keep an assigned list without
\* duplicates free of duplicates and keep the order of the names that
\* remain; add_person appends a name that is absent and leaves the list
\* alone if it is present, remove_person leaves the list alone if the name
\* is absent; afterwards the name is present (add_person) or absent
\* (remove_person); neither raises, and nothing else in the receipt changes.
C19_AssignedListIsOrderedSet ==
    [][call'.fn \in {"add_person", "remove_person"} =>
          LET n == call'.arg[2]
          IN  /\ reply' = None
              /\ receipt' = [receipt EXCEPT
                    !.items[call'.arg[1]].assigned_people = AssignedAfter]
              /\ Without(AssignedAfter, n) = Without(AssignedBefore, n)
              /\ call'.fn = "add_person" =>
                    /\ n \in Range(AssignedAfter)
                    /\ AssignedAfter = IF n \in Range(AssignedBefore)
                                       THEN AssignedBefore
                                       ELSE Append(AssignedBefore, n)
              /\ (call'.fn = "remove_person" /\ n \notin Range(AssignedBefore)) =>
                    AssignedAfter = AssignedBefore
              /\ NoDuplicates(AssignedBefore) =>
                    /\ NoDuplicates(AssignedAfter)
                    /\ call'.fn = "remove_person" =>
                          n \notin Range(AssignedAfter)]_vars

\* bob was assigned first and ann added after him: the list keeps the
\* order of insertion
C19_Witness ==
    /\ call.fn = "add_person"
    /\ call.arg[2] = "ann"
    /\ receipt.items[call.arg[1]].assigned_people = <<"bob", "ann">>

\* total_amount is the sum of the total prices and extraction_confidence
\* the mean of the confidence scores, both 0.0 without items
TotalsDerived(r) ==
    IF r.items = <<>>
    THEN r.total_amount = FZero /\ r.extraction_confidence = FZero
    ELSE /\ r.total_amount =
               FSum([i \in 1..Len(r.items) |-> r.items[i].total_price])
         /\ r.extraction_confidence =
               FDivInt(FSum([i \in 1..Len(r.items) |->
                                r.items[i].confidence_score]),
                       Len(r.items))

TotalsInRange ==
    /\ FLe(FZero, receipt.total_amount)
    /\ FLe(FZero, receipt.extraction_confidence)
    /\ FLe(receipt.extraction_confidence, FInt(1))

\* C20: add_item appends the item, and remove_item removes the items with
\* the given id and returns whether there was one; after add_item and
\* after a remove_item that returned true total_amount is the sum of the
\* items' total prices and extraction_confidence the mean of their
\* confidence scores (0.0 both without items); a remove_item that returns
\* false changes nothing; total_amount >= 0 and extraction_confidence in
\* [0, 1] hold in every state.
C20_TotalsFollowItems ==
    /\ []TotalsInRange
    /\ [][/\ call'.fn = "add_item" =>
                /\ receipt'.items = Append(receipt.items, call'.arg)
                /\ TotalsDerived(receipt')
          /\ call'.fn = "remove_item" =>
                LET existed == \E i \in 1..Len(receipt.items) :
                                  receipt.items[i].id = call'.arg
                IN  /\ reply' = Some(existed)
                    /\ existed =>
                          /\ receipt'.items =
                                SelectSeq(receipt.items,
                                          LAMBDA item : item.id # call'.arg)
                          /\ TotalsDerived(receipt')
                    /\ ~existed => receipt' = receipt]_vars

\* an item was removed and another remains, whose price is now the total
C20_Witness ==
    /\ call.fn = "remove_item"
    /\ reply = Some(TRUE)
    /\ Len(receipt.items) = 1
    /\ receipt.total_amount = receipt.items[1].total_price
    /\ receipt.total_amount # Cents(1000)

\* C21: after remove_participant(n) the name n is neither a participant
\* nor assigned to any item, and the other participants and the other
\* assignments are as before.
C21_ParticipantRemovedEverywhere ==
    [][call'.fn = "remove_participant" =>
          LET n == call'.arg
          IN  /\ n \notin Range(receipt'.participants)
              /\ \A i \in 1..Len(receipt'.items) :
                    n \notin Range(receipt'.items[i].assigned_people)
              /\ Without(receipt'.participants, n) = Without(receipt.participants, n)
              /\ Len(receipt'.items) = Len(receipt.items)
              /\ \A i \in 1..Len(receipt.items) :
                    Without(receipt'.items[i].assigned_people, n)
                       = Without(receipt.items[i].assigned_people, n)]_vars

(***************************************************************************)
(* Properties of single calls.                                             *)
(***************************************************************************)
\* the named groups of the match of item pattern p in a line
GroupsOf(p, line) ==
    LET m == Search(ITEM_PATTERNS[p], line)
        g == ITEM_GROUPS[p]
        grp(r) == Group(line, m, r[1], r[2])
    IN  [quantity |-> IF g.quantity = <<>> THEN None
                      ELSE Some(ParseInt(grp(g.quantity))),
         unit_price |-> IF g.unit_price = <<>> THEN None
                        ELSE Some(ParseFloat(grp(g.unit_price))),
         total_price |-> Some(ParseFloat(grp(g.price)))]

Matches(p, line) == Search(ITEM_PATTERNS[p], line).ok

\* C12: _parse_lines gives one ParsedLine for every line that matches an
\* item pattern and none for the others, in the order of the lines; a line
\* that matches pattern 1 carries the quantity, unit price and total of
\* that match, a line that matches pattern 2 but not 1 those of pattern 2,
\* and only a line that matches neither is classified by pattern 3.
C12_PatternPriority ==
    call.fn = "_parse_lines" =>
        /\ [i \in 1..Len(reply) |-> reply[i].text]
           = SelectSeq(call.arg, LAMBDA l : \E p \in 1..3 : Matches(p, l))
        /\ \A i \in 1..Len(reply) :
              LET l == reply[i].text
                  p == IF Matches(1, l) THEN 1
                       ELSE IF Matches(2, l) THEN 2 ELSE 3
              IN  /\ reply[i].quantity = GroupsOf(p, l).quantity
                  /\ reply[i].unit_price = GroupsOf(p, l).unit_price
                  /\ reply[i].total_price = GroupsOf(p, l).total_price
                  /\ p = 1 => /\ reply[i].quantity # None
                              /\ reply[i].unit_price # None
                              /\ reply[i].total_price # None

\* a line of the first shape is classified next to a line that matches
\* nothing
C12_Witness ==
    /\ call.fn = "_parse_lines"
    /\ Len(reply) < Len(call.arg)
    /\ \E i \in 1..Len(reply) :
          /\ Matches(1, reply[i].text) /\ Matches(2, reply[i].text)
          /\ Matches(3, reply[i].text)
          /\ reply[i].unit_price # None

\* the additive table of the confidence score, in hundredths
TableScore(pl) ==
    (IF pl.item_name # None /\ pl.item_name[1] # <<>> THEN 30 ELSE 0)
    + (IF pl.total_price # None THEN 30 ELSE 0)
    + (IF pl.quantity # None THEN 15 ELSE 0)
    + (IF pl.unit_price # None THEN 15 ELSE 0)
    + (IF /\ pl.item_name # None
          /\ \E i \in 1..(Len(pl.item_name[1]) - 2) :
                \A j \in i..(i + 2) : pl.item_name[1][j] \in AlphaChars
       THEN 10 ELSE -10)
    + (IF /\ pl.total_price # None
          /\ FLe(Cents(1), pl.total_price[1])
          /\ FLe(pl.total_price[1], FInt(1000))
       THEN 10 ELSE -10)

C14_OneItemPerMatch ==
    call.fn = "_extract_special_charges" =>
        LET found == ScanOrder(call.arg)
        IN  reply = [i \in 1..Len(found) |->
                        [kind |-> "ExtractedItem", name |-> found[i][1],
                         total_price |-> found[i][2],
                         confidence_score |-> Cents(90),
                         quantity |-> None, unit_price |-> None,
                         is_special_charge |-> TRUE,
                         assigned_people |-> <<>>]]

\* the same phrase twice in the text gives two equal items
C14_Witness ==
    /\ call.fn = "_extract_special_charges"
    /\ Len(reply) = 2
    /\ reply[1] = reply[2]
    /\ reply[1].is_special_charge
    /\ reply[1].confidence_score = Cents(90)

\* p occurs in t
Occurs(p, t) ==
    \E i \in 0..(Len(t) - Len(p)) : \A j \in 1..Len(p) : t[i + j] = p[j]

\* C15: every keyword of a family that is followed by an amount in the
\* text is detected as a charge of that family with that amount.
C15_EveryKeywordDetected ==
    call.fn = "_extract_special_charges" =>
        \A k \in 1..Len(ChargePhrases) :
            Occurs(ChargePhrases[k].text, call.arg) =>
                \E i \in 1..Len(reply) :
                    /\ reply[i].name = ChargeTypes[ChargePhrases[k].family]
                    /\ reply[i].total_price = Cents(ChargePhrases[k].cents)

\* C16: _clean_text is idempotent: cleaning a cleaned text returns it
\* unchanged.
C16_CleanTextIdempotent ==
    call.fn = "_clean_text" => clean_text(reply) = reply

\* C17: every item returned by _clean_and_validate_items has a name that
\* is not blank and a total price above 0.
C17_ValidatedItems ==
    call.fn = "_clean_and_validate_items" =>
        \A i \in 1..Len(reply) :
            /\ Strip(reply[i].name) # <<>>
            /\ ~FLe(reply[i].total_price, FZero)

\* a value of the arguments that __post_init__ rejects
Violating(a) ==
    \/ FLt(a.total_price, FZero)
    \/ FLt(a.confidence_score, FZero) \/ FLt(FInt(1), a.confidence_score)
    \/ a.quantity # None /\ a.quantity[1] <= 0
    \/ a.unit_price # None /\ FLt(a.unit_price[1], FZero)

\* C18: a construction with a violating value raises ValueError; every
\* constructed ExtractedItem has total_price >= 0, confidence_score in
\* [0, 1], a quantity above 0 and a unit price of at least 0 if present;
\* a quantity given without a unit price gives unit_price = total_price /
\* quantity, and a quantity and a unit price given with total price 0
\* give total_price = quantity x unit_price.
C18_ConstructedItemValid ==
    call.fn = "ExtractedItem" =>
        IF Violating(call.arg)
        THEN IsError(reply) /\ reply.raised = "ValueError"
        ELSE /\ ~IsError(reply)
             /\ FLe(FZero, reply.total_price)
             /\ FLe(FZero, reply.confidence_score)
             /\ FLe(reply.confidence_score, FInt(1))
             /\ reply.quantity # None => reply.quantity[1] > 0
             /\ reply.unit_price # None => FLe(FZero, reply.unit_price[1])
             /\ reply.quantity = call.arg.quantity
             /\ (call.arg.quantity # None /\ call.arg.unit_price = None) =>
                   reply.unit_price =
                      Some(FDivInt(call.arg.total_price, call.arg.quantity[1]))
             /\ (/\ call.arg.quantity # None /\ call.arg.unit_price # None
                 /\ call.arg.total_price = FZero) =>
                   reply.total_price =
                      FMulInt(call.arg.unit_price[1], call.arg.quantity[1])

\* 7.00 for 3 pieces without a unit price: the unit price is derived
C18_Witness ==
    /\ call.fn = "ExtractedItem"
    /\ call.arg.quantity = Some(3)
    /\ call.arg.unit_price = None
    /\ call.arg.total_price = Cents(700)
    /\ ~IsError(reply)
    /\ reply.unit_price = Some(FDivInt(Cents(700), 3))

\* C22: read_expenses raises for every file whose header lacks a required
\* column, however many data rows it has; and with a complete header it
\* raises for a row whose TotalPrice is not a number, naming the item of
\* the first such row.
C22_BadFileFailsWhole ==
    call.fn = "read_expenses" =>
        LET header == call.arg.header
            rows   == call.arg.rows
            bad    == {i \in 1..Len(rows) :
                          ~IsDecimal(Cell(header, rows[i], "TotalPrice"))}
        IN  IF ~(RequiredColumns \subseteq Range(header))
            THEN IsError(reply)
            ELSE bad # {} =>
                    /\ IsError(reply)
                    /\ reply.msg[4] = Cell(header, rows[MinOf(bad)], "ItemName")


\* the name has three letters in a row
NamedInLetters(pl) ==
    /\ pl.item_name # None
    /\ \E i \in 1..(Len(pl.item_name[1]) - 2) :
          \A j \in i..(i + 2) : pl.item_name[1][j] \in AlphaChars

\* the total price is present and between 0.01 and 1000.00
PlausibleTotal(pl) ==
    /\ pl.total_price # None
    /\ FLe(Cents(1), pl.total_price[1])
    /\ FLe(pl.total_price[1], FInt(1000))

\* the item that carries the score of the line
ScoredItem == [confidence_score |-> reply]

\* C28: against the default threshold 0.8, a line with a name of at least
\* three letters, a plausible total and a quantity scores at least 0.8 and
\* is of high confidence; the same line without quantity and without unit
\* price scores at least 0.4 and below 0.8 and is not of high confidence;
\* a line with a name only scores below 0.4.
C28_ConfidenceBands ==
    call.fn = "_calculate_confidence_score" =>
        LET pl == call.arg
        IN  /\ (NamedInLetters(pl) /\ PlausibleTotal(pl) /\ pl.quantity # None) =>
                  /\ FLe(Cents(80), reply)
                  /\ is_high_confidence(ScoredItem, DefaultThreshold)
            /\ (NamedInLetters(pl) /\ PlausibleTotal(pl) /\ pl.quantity = None /\ pl.unit_price = None) =>
                  /\ FLe(Cents(40), reply)
                  /\ FLt(reply, Cents(80))
                  /\ ~is_high_confidence(ScoredItem, DefaultThreshold)
            /\ (HasName(pl) /\ pl.total_price = None /\ pl.quantity = None /\ pl.unit_price = None) =>
                  FLt(reply, Cents(40))

\* the line 'coffee 7.00' without quantity: its score lies one step below
\* 0.8
C28_Witness ==
    /\ call.fn = "_calculate_confidence_score"
    /\ NamedInLetters(call.arg) /\ PlausibleTotal(call.arg)
    /\ call.arg.quantity = None /\ call.arg.unit_price = None
    /\ FLt(Cents(79), reply) /\ FLt(reply, Cents(80))
    /\ ~is_high_confidence(ScoredItem, DefaultThreshold)

\* a line with a quantity is of high confidence, a line with a name only
\* is below 0.4
C28_WitnessHigh ==
    /\ call.fn = "_calculate_confidence_score"
    /\ NamedInLetters(call.arg) /\ PlausibleTotal(call.arg)
    /\ call.arg.quantity # None /\ call.arg.unit_price = None
    /\ is_high_confidence(ScoredItem, DefaultThreshold)

C28_WitnessLow ==
    /\ call.fn = "_calculate_confidence_score"
    /\ NamedInLetters(call.arg) /\ call.arg.total_price = None
    /\ call.arg.quantity = None /\ call.arg.unit_price = None
    /\ reply # FZero /\ FLt(reply, Cents(40))

(***************************************************************************)
(* Amounts of the text and items of the output.                            *)
(***************************************************************************)
\* the amounts printed in a text: the matches of \d+\.\d{2}
PrintedAmounts(t) == FindIter(<<D1, Dot, D2>>, t)

\* the places of a text where the amount v is printed
PrintedAt(t, v) ==
    {k \in 1..Len(PrintedAmounts(t)) :
        ParseFloat(Group(t, PrintedAmounts(t)[k], 1, 3)) = v}

\* C29: no printed amount is counted twice in the output of
\* parse_receipt_text: there are no more items than amounts in the text,
\* and a special charge and a line item carry the same amount only when
\* the amount is printed twice.
C29_NoAmountCountedTwice ==
    stage = "Succeeded" =>
        /\ Len(outcome.items) <= Len(PrintedAmounts(text))
        /\ \A i, j \in 1..Len(outcome.items) :
              (/\ outcome.items[i].is_special_charge
               /\ ~outcome.items[j].is_special_charge
               /\ outcome.items[i].total_price = outcome.items[j].total_price)
              => Cardinality(PrintedAt(text, outcome.items[i].total_price)) >= 2

\* 'tip 2.00' has come back as a line item Tip and as a special charge Tip
C29_CountedTwice ==
    /\ stage = "Succeeded"
    /\ text = <<"t", "i", "p", " ", "2", ".", "0", "0">>
    /\ Len(outcome.items) = 2
    /\ ~outcome.items[1].is_special_charge /\ outcome.items[2].is_special_charge
    /\ outcome.items[1].total_price = Cents(200)
    /\ outcome.items[2].total_price = Cents(200)

(***************************************************************************)
(* The two ways of computing what a person owes.                           *)
(***************************************************************************)
\* total_owed of a name in a ledger; nothing when the name has no entry
OwedIn(people, name) ==
    IF name \in Keys(people) THEN Some(people[IndexOf(people, name)].total_owed)
    ELSE None

\* C30: for every ReceiptData and every name, get_person_total(name)
\* equals the total_owed of the name in the ledger of
\* calculate_from_receipt, and is 0 exactly when the name has no entry in
\* the ledger or owes 0.
C30_TotalsAgree ==
    op = "get_person_total" =>
        LET owed == OwedIn(calculate_from_receipt(items), result.name)
        IN  /\ owed # None => result.value = owed[1]
            /\ (result.value = FZero) <=> (owed = None \/ owed = Some(FZero))

\* the same for receipts whose items name nobody twice
C30_AgreeWithoutDuplicates ==
    (op = "get_person_total" /\ \A i \in 1..Len(items) : NoDuplicates(items[i].assigned_people)) =>
        LET owed == OwedIn(calculate_from_receipt(items), result.name)
        IN  /\ owed # None => result.value = owed[1]
            /\ (result.value = FZero) <=> (owed = None \/ owed = Some(FZero))

\* Taxi 5.00 assigned to Bob twice: 2.50 by get_person_total, 5.00 in the
\* ledger
C30_Disagree ==
    /\ op = "get_person_total"
    /\ result.name = "Bob"
    /\ Len(items) = 1 /\ items[1].name = "Taxi"
    /\ result.value = Cents(250)
    /\ OwedIn(calculate_from_receipt(items), "Bob") = Some(Cents(500))
=============================================================================
